---- MODULE Spec2Model ----
(***************************************************************************)
(* Model of iridium's lazy result abstraction (iridium/generic.py):        *)
(* PaginatedList (batch cache, __len__, __getitem__, iterator,             *)
(* __contains__) and Query (constructor, _get_batch), running against a    *)
(* page-fetch collaborator shaped like the LazyNumbers / DummyQuery test   *)
(* doubles of tests/test_generic.py: the remote side holds the items       *)
(* 0 .. tot-1 and answers every page request with that page and tot.       *)
(*                                                                         *)
(* math.floor(idx / size) is Python true division followed by floor; it    *)
(* equals floor division for every |idx| < 2^53, far above the indices     *)
(* explored here, and is written \div.                                     *)
(*                                                                         *)
(* On top of it: Query's dict-like access by id, AccessProxy (a fresh      *)
(* Query per call, entity lookup by id with its error mapping), and        *)
(* WrappedRecord (iridium/record.py) running against a repository shaped   *)
(* like the draft API of iridium/inveniordm/api.py: save, publish,         *)
(* delete, edit, is_saved, versions.create and the draft/published gating. *)
(***************************************************************************)
EXTENDS Integers, Sequences, FiniteSets, TLC

\* ---- bounds of the exploration ------------------------------------------
MaxTotal == 2     \* the remote side holds 0 .. MaxTotal items
MaxBatch == 2     \* explicit size= arguments range over 1 .. MaxBatch
MaxFetch == 2     \* cap on the number of fetches counted for one batch
NumIters == 2     \* iterator objects alive at the same time
MaxDrift == 1     \* changes of the remote index during the life of the instance
MaxVersions == 2  \* record ids (versions of one record) the repository can hold
MaxMeta == 1      \* metadata values are 0 .. MaxMeta, 0 failing validation
MaxFiles == 2     \* file names are 1 .. MaxFiles
NumWrappers == 2  \* WrappedRecord objects alive at the same time
MaxLinks == 2     \* access link ids are 1 .. MaxLinks
MaxExpiry == 2    \* expiry dates are 1 .. MaxExpiry, 0 standing for None

\* ---- program constants --------------------------------------------------
DEF_BATCH_SIZE == 1000

\* ---- encodings of Python values -----------------------------------------
NoTotal == -1     \* self._total is None
NoVal == -1       \* no item was returned
NoSize == 0       \* pgsz is None (falsy, like a size of 0)
QVal == 7         \* the value of the opaque filter argument q
PageVal == 23     \* the value of an explicit page argument

VARIABLES
    st,           \* "new" before Query.__init__, "live" after it, "failed" if it raised
    kw,           \* the keyword arguments Query.__init__ was called with
    BATCH_SIZE,   \* self._BATCH_SIZE
    total,        \* self._total (NoTotal while None)
    results,      \* self._results: batch index -> list of items
    query_args,   \* self._query_args
    tot,          \* number of items on the remote side
    calls,        \* the _query_items calls made so far, with the batch asked for
    nfetch,       \* batch index -> number of times _get_batch was called for it
    nlen,         \* number of those fetches that __len__ issued
    iters,        \* the iterator objects: slot -> PaginatedListIterator state
    oob,          \* some direct __getitem__ failed its bounds check after the fetch step
    ndrift,       \* number of changes of the remote index so far
    ret,          \* what the last operation did and returned
    pret,         \* what the last operation on the AccessProxy did and returned
    remote,       \* the repository: record id -> draft and record stored for it
    wrap,         \* the WrappedRecord objects: slot -> fields of the object
    wret,         \* what the last operation on a WrappedRecord did and returned
    links,        \* the repository: link id -> access link of the record
    alink,        \* the WrappedAccessLink objects: slot -> fields of the object
    lret          \* what the last operation on access links or versions did

\* the variables of the AccessProxy
proxyVars == <<pret>>

\* the variables of the access links of a record
linkVars == <<links, alink, lret>>

\* the variables of the WrappedRecord objects and their repository
recordVars == <<remote, wrap, wret, linkVars>>

vars == <<st, kw, BATCH_SIZE, total, results, query_args, tot, calls, nfetch,
          nlen, iters, oob, ndrift, ret, proxyVars, recordVars>>

Min(a, b) == IF a < b THEN a ELSE b

\* list(range(lo, hi))
Range(lo, hi) == [i \in 1..(IF hi > lo THEN hi - lo ELSE 0) |-> lo + i - 1]

\* f with f[k] = v (dict item assignment)
Put(f, k, v) == [x \in DOMAIN f \cup {k} |-> IF x = k THEN v ELSE f[x]]

\* d without key k (del d[k])
Del(d, k) == [x \in DOMAIN d \ {k} |-> d[x]]

Empty == [x \in {} |-> 0]

\* ---- the keyword arguments a caller can pass to Query.__init__ ----------
KwKeys == {"size", "page", "q"}

KwVals(k) ==
    IF k = "size" THEN 1..MaxBatch
    ELSE IF k = "page" THEN {PageVal}
    ELSE {QVal}

Kwargs == UNION {[D -> 0..PageVal] : D \in SUBSET KwKeys}

ValidKwargs == {a \in Kwargs : \A k \in DOMAIN a : a[k] \in KwVals(k)}

\* ---- the page-fetch collaborator ----------------------------------------
\* _query_items(page=, size=, **args): the page and the total of the remote side
QueryItems(page, size, args) ==
    [hits |-> Range((page - 1) * size, Min(tot, page * size)), total |-> tot]

\* _get_batch that passes the 0-based batch index on as the page number
GetBatchZeroBased(bidx) ==
    LET page == bidx
        r == QueryItems(page, BATCH_SIZE, query_args)
    IN  [res |-> r.hits, num |-> r.total,
         call |-> [bidx |-> bidx, page |-> page, size |-> BATCH_SIZE,
                   args |-> query_args]]

\* ---- Query._get_batch ---------------------------------------------------
GetBatch(bidx) ==
    LET page == bidx + 1
        r == QueryItems(page, BATCH_SIZE, query_args)
    IN  [res |-> r.hits, num |-> r.total,
         call |-> [bidx |-> bidx, page |-> page, size |-> BATCH_SIZE,
                   args |-> query_args]]

\* ---- PaginatedList ------------------------------------------------------
\* the mutable part of the instance, threaded through the pure operators
Obj == [total |-> total, results |-> results, nfetch |-> nfetch, calls |-> calls]

Count(m, bidx) == IF bidx \in DOMAIN m.nfetch THEN m.nfetch[bidx] ELSE 0

Fetches(m) ==
    LET RECURSIVE Sum(_)
        Sum(S) == IF S = {} THEN 0
                  ELSE LET b == CHOOSE x \in S : TRUE
                       IN  m.nfetch[b] + Sum(S \ {b})
    IN  Sum(DOMAIN m.nfetch)

\* _get_batch_and_cache that takes the total of every fetch
GetBatchAndCacheLastTotal(m, bidx) ==
    LET b == GetBatch(bidx)
    IN  [total |-> b.num,
         results |-> Put(m.results, bidx, b.res),
         nfetch |-> Put(m.nfetch, bidx, Count(m, bidx) + 1),
         calls |-> m.calls \cup {b.call}]

\* _get_batch_and_cache
GetBatchAndCache(m, bidx) ==
    LET b == GetBatch(bidx)
    IN  [total |-> IF m.total = NoTotal THEN b.num ELSE m.total,
         results |-> Put(m.results, bidx, b.res),
         nfetch |-> Put(m.nfetch, bidx, Count(m, bidx) + 1),
         calls |-> m.calls \cup {b.call}]

\* __len__
Length(m) ==
    LET m1 == IF m.total = NoTotal \/ m.total = 0
              THEN GetBatchAndCache(m, 0) ELSE m
    IN  [m |-> m1, kind |-> "ok", val |-> m1.total]

\* _index_to_batch with quotient and remainder swapped
IndexToBatchSwapped(idx) == <<idx % BATCH_SIZE, idx \div BATCH_SIZE>>

\* _index_to_batch
IndexToBatch(idx) == <<idx \div BATCH_SIZE, idx % BATCH_SIZE>>

\* __getitem__ that fetches without looking into the cache
GetItemNoCache(m, idx) ==
    LET bidx == IndexToBatch(idx)[1]
        boff == IndexToBatch(idx)[2]
    IN  IF bidx < 0
        THEN [m |-> m, kind |-> "IndexError", val |-> NoVal]
        ELSE LET m1 == GetBatchAndCache(m, bidx)
             IN  IF ~(0 <= idx /\ idx < m1.total)
                 THEN [m |-> m1, kind |-> "IndexError", val |-> NoVal]
                 ELSE IF boff + 1 \in DOMAIN m1.results[bidx]
                 THEN [m |-> m1, kind |-> "ok", val |-> m1.results[bidx][boff + 1]]
                 ELSE [m |-> m1, kind |-> "IndexError", val |-> NoVal]

\* __getitem__ that returns None for an index out of range
GetItemNone(m, idx) ==
    LET bidx == IndexToBatch(idx)[1]
        boff == IndexToBatch(idx)[2]
    IN  IF bidx < 0
        THEN [m |-> m, kind |-> "ok", val |-> NoVal]
        ELSE LET m1 == IF m.total = NoTotal \/ bidx \notin DOMAIN m.results
                       THEN GetBatchAndCache(m, bidx) ELSE m
             IN  IF 0 <= idx /\ idx < m1.total /\ boff + 1 \in DOMAIN m1.results[bidx]
                 THEN [m |-> m1, kind |-> "ok", val |-> m1.results[bidx][boff + 1]]
                 ELSE [m |-> m1, kind |-> "ok", val |-> NoVal]

\* __getitem__ that checks the bounds before it fetches once the total is known
GetItemCheckFirst(m, idx) ==
    LET bidx == IndexToBatch(idx)[1]
        boff == IndexToBatch(idx)[2]
    IN  IF bidx < 0 \/ (m.total # NoTotal /\ idx >= m.total)
        THEN [m |-> m, kind |-> "IndexError", val |-> NoVal]
        ELSE LET m1 == IF m.total = NoTotal \/ bidx \notin DOMAIN m.results
                       THEN GetBatchAndCache(m, bidx) ELSE m
             IN  IF ~(0 <= idx /\ idx < m1.total)
                 THEN [m |-> m1, kind |-> "IndexError", val |-> NoVal]
                 ELSE IF boff + 1 \in DOMAIN m1.results[bidx]
                 THEN [m |-> m1, kind |-> "ok", val |-> m1.results[bidx][boff + 1]]
                 ELSE [m |-> m1, kind |-> "IndexError", val |-> NoVal]

\* __getitem__ (integer index)
GetItem(m, idx) ==
    LET bidx == IndexToBatch(idx)[1]
        boff == IndexToBatch(idx)[2]
    IN  IF bidx < 0
        THEN [m |-> m, kind |-> "IndexError", val |-> NoVal]
        ELSE LET m1 == IF m.total = NoTotal \/ bidx \notin DOMAIN m.results
                       THEN GetBatchAndCache(m, bidx) ELSE m
             IN  IF ~(0 <= idx /\ idx < m1.total)
                 THEN [m |-> m1, kind |-> "IndexError", val |-> NoVal]
                 ELSE IF boff + 1 \in DOMAIN m1.results[bidx]
                 THEN [m |-> m1, kind |-> "ok", val |-> m1.results[bidx][boff + 1]]
                 ELSE [m |-> m1, kind |-> "IndexError", val |-> NoVal]

\* __next__ that advances before it reads
IterStepPreInc(m, it) ==
    LET r == GetItem(m, it.idx + 1)
    IN  IF r.kind = "ok"
        THEN [m |-> r.m, kind |-> "ok", val |-> r.val,
              it |-> [it EXCEPT !.idx = it.idx + 1, !.out = Append(it.out, r.val),
                                !.n = IF it.done THEN it.n ELSE it.n + 1]]
        ELSE [m |-> r.m, kind |-> "StopIteration", val |-> NoVal,
              it |-> [it EXCEPT !.done = TRUE,
                                !.n = IF it.done THEN it.n ELSE it.n + 1]]

\* PaginatedListIterator.__next__ on an iterator at position idx
IterStep(m, it) ==
    LET r == GetItem(m, it.idx)
    IN  IF r.kind = "ok"
        THEN [m |-> r.m, kind |-> "ok", val |-> r.val,
              it |-> [it EXCEPT !.idx = it.idx + 1, !.out = Append(it.out, r.val),
                                !.n = IF it.done THEN it.n ELSE it.n + 1]]
        ELSE [m |-> r.m, kind |-> "StopIteration", val |-> NoVal,
              it |-> [it EXCEPT !.done = TRUE,
                                !.n = IF it.done THEN it.n ELSE it.n + 1]]

\* PaginatedListIterator.__init__
NewIter == [live |-> TRUE, idx |-> 0, out |-> <<>>, done |-> FALSE, n |-> 0]

NoIter == [live |-> FALSE, idx |-> 0, out |-> <<>>, done |-> FALSE, n |-> 0]

\* __contains__: obj in iter(self), a scan with a fresh iterator
RECURSIVE Scan(_, _, _)
Scan(m, it, obj) ==
    LET r == IterStep(m, it)
    IN  IF r.kind # "ok" THEN [m |-> r.m, kind |-> "ok", val |-> FALSE]
        ELSE IF r.val = obj THEN [m |-> r.m, kind |-> "ok", val |-> TRUE]
        ELSE Scan(r.m, r.it, obj)

Contains(m, obj) == Scan(m, NewIter, obj)

\* ---- Query: dict-like access by id --------------------------------------
\* x.__dict__[self._dict_key] of the item x: the test double Dummy(n) carries
\* key = str(n)
Key(x) == ToString(x)

\* a string that is the id of no item
NoKey == "none"

\* the first (k, v) of items() with k == key: a fresh iterator is advanced
\* until an item with that id comes out or the iterator is exhausted
RECURSIVE ScanKey(_, _, _)
ScanKey(m, it, key) ==
    LET r == IterStep(m, it)
    IN  IF r.kind # "ok"
        THEN [m |-> r.m, kind |-> "StopIteration", val |-> NoVal, pos |-> -1]
        ELSE IF Key(r.val) = key
        THEN [m |-> r.m, kind |-> "ok", val |-> r.val, pos |-> it.idx]
        ELSE ScanKey(r.m, r.it, key)

\* Query.__contains__ with a string: obj in self.keys()
\* obj in self.keys(), r being what the scan of the keys did
InKeys(r) == [m |-> r.m, kind |-> "ok", val |-> (r.kind = "ok"), pos |-> r.pos]

QueryContains(m, key) == InKeys(ScanKey(m, NewIter, key))

\* string lookup through dict(): all results are loaded, then one is picked
QueryGetItemDict(m, key) ==
    [ScanKey(ScanKey(m, NewIter, NoKey).m, NewIter, key)
        EXCEPT !.kind = IF @ = "ok" THEN "ok" ELSE "KeyError"]

\* Query.__getitem__ with a string: next(...) over items(), StopIteration
\* becomes KeyError
QueryGetItem(m, key) ==
    [ScanKey(m, NewIter, key)
        EXCEPT !.kind = IF @ = "ok" THEN "ok" ELSE "KeyError"]

\* ---- AccessProxy ----------------------------------------------------------
\* a Query object right after its construction
FreshObj == [total |-> NoTotal, results |-> Empty, nfetch |-> Empty, calls |-> {}]

\* a proxy that keeps the Query it built and hands it out again
ProxyQueryKept(prev) == IF st = "live" THEN prev ELSE FreshObj

\* the state of the Query that self() hands out, prev being the Query handed
\* out before: _get_query constructs a new object each time
ProxyQuery(prev) == FreshObj

\* status codes of error responses: no permission, not found, server error
StatusCodes == {403, 404, 500}

IsClientError(s) == 400 <= s /\ s < 500

\* what _get_entity(key) can do: return the entity with that id, raise
\* httpx.HTTPStatusError for an error response (not found when there is no
\* such entity), or raise a connection error before any response
EntityOutcomes(key) ==
    LET found == {n \in 0..(tot - 1) : Key(n) = key}
    IN  {[kind |-> "ok", status |-> 200, val |-> n] : n \in found}
        \cup {[kind |-> "HTTPStatusError", status |-> c, val |-> NoVal] :
                 c \in IF found = {} THEN StatusCodes ELSE StatusCodes \ {404}}
        \cup {[kind |-> "ConnectError", status |-> 0, val |-> NoVal]}

\* AccessProxy.__getitem__, string branch, _get_entity having done out
ProxyGetEntity(out) ==
    IF out.kind = "HTTPStatusError"
    THEN [kind |-> "KeyError", val |-> NoVal]
    ELSE [kind |-> out.kind, val |-> out.val]

\* __contains__ that lets the KeyError of __getitem__ through
ProxyContainsRaise(r) ==
    IF r.kind = "ok" THEN [kind |-> "ok", val |-> TRUE]
    ELSE [kind |-> r.kind, val |-> FALSE]

\* AccessProxy.__contains__, r being what self.__getitem__(obj) did
ProxyContains(r) ==
    IF r.kind = "ok" THEN [kind |-> "ok", val |-> TRUE]
    ELSE IF r.kind = "KeyError" THEN [kind |-> "ok", val |-> FALSE]
    ELSE [kind |-> r.kind, val |-> FALSE]

\* ---- bookkeeping shared by the actions ----------------------------------
Commit(m) ==
    /\ total' = m.total
    /\ results' = m.results
    /\ nfetch' = m.nfetch
    /\ calls' = m.calls

Report(op, arg, r) ==
    ret' = [op |-> op, arg |-> arg, kind |-> r.kind, val |-> r.val,
            nf |-> Fetches(r.m) - Fetches(Obj), pre |-> total,
            hit |-> IF op = "getitem" THEN IndexToBatch(arg)[1] \in DOMAIN results
                    ELSE FALSE]

\* the batches an operation fetched, and the position at which it stopped
ReportKey(op, arg, r) ==
    ret' = [op |-> op, arg |-> arg, kind |-> r.kind, val |-> r.val,
            nf |-> Fetches(r.m) - Fetches(Obj), pre |-> total, hit |-> FALSE,
            fb |-> {b \in DOMAIN r.m.nfetch : Count(r.m, b) > Count(Obj, b)},
            pos |-> r.pos]

NoRet == [op |-> "none", arg |-> 0, kind |-> "ok", val |-> NoVal,
          nf |-> 0, pre |-> NoTotal, hit |-> FALSE]

NoProxyRet == [op |-> "none", typ |-> "none", arg |-> 0, out |-> "none",
               status |-> 0, kind |-> "ok", val |-> NoVal, nf |-> 0,
               q0 |-> FreshObj, again |-> FALSE]

\* ---- actions ------------------------------------------------------------
\* Query.__init__ that looks for page only when no size was given
QueryInitElif(a) ==
    LET pgsz == IF "size" \in DOMAIN a THEN a["size"] ELSE NoSize
        rest == IF "size" \in DOMAIN a THEN Del(a, "size") ELSE a
    IN  IF "size" \notin DOMAIN a /\ "page" \in DOMAIN rest
        THEN [st |-> "failed", kind |-> "ValueError", BATCH_SIZE |-> 0,
              query_args |-> Empty]
        ELSE [st |-> "live", kind |-> "ok",
              BATCH_SIZE |-> IF pgsz # NoSize THEN pgsz ELSE DEF_BATCH_SIZE,
              query_args |-> rest]

\* Query.__init__(dict_key, **kwargs)
QueryInit(a) ==
    LET pgsz == IF "size" \in DOMAIN a THEN a["size"] ELSE NoSize
        rest == IF "size" \in DOMAIN a THEN Del(a, "size") ELSE a
    IN  IF "page" \in DOMAIN rest
        THEN [st |-> "failed", kind |-> "ValueError", BATCH_SIZE |-> 0,
              query_args |-> Empty]
        ELSE [st |-> "live", kind |-> "ok",
              BATCH_SIZE |-> IF pgsz # NoSize THEN pgsz ELSE DEF_BATCH_SIZE,
              query_args |-> rest]

DoQueryInit ==
    /\ st = "new"
    /\ \E a \in ValidKwargs :
        LET q == QueryInit(a)
        IN  /\ kw' = a
            /\ st' = q.st
            /\ BATCH_SIZE' = q.BATCH_SIZE
            /\ query_args' = q.query_args
            /\ ret' = [NoRet EXCEPT !.op = "init", !.kind = q.kind]
    /\ UNCHANGED <<total, results, tot, calls, nfetch, nlen, iters, oob, ndrift>>
    /\ UNCHANGED <<proxyVars, recordVars>>

DoLen ==
    /\ st = "live"
    /\ Count(Obj, 0) < MaxFetch
    /\ LET r == Length(Obj)
       IN  /\ Commit(r.m)
           /\ Report("len", 0, r)
           /\ nlen' = nlen + (Fetches(r.m) - Fetches(Obj))
    /\ UNCHANGED <<st, kw, BATCH_SIZE, query_args, tot, iters, oob, ndrift>>
    /\ UNCHANGED <<proxyVars, recordVars>>

DoGetItem ==
    /\ st = "live"
    /\ \E idx \in -1..MaxTotal :
        LET r == GetItem(Obj, idx)
        IN  /\ Commit(r.m)
            /\ Report("getitem", idx, r)
            /\ oob' = (oob \/ (r.kind # "ok" /\ idx >= 0))
    /\ UNCHANGED <<st, kw, BATCH_SIZE, query_args, tot, nlen, iters, ndrift>>
    /\ UNCHANGED <<proxyVars, recordVars>>

\* __iter__: a fresh iterator object takes slot j
DoIter(j) ==
    /\ st = "live"
    /\ iters' = [iters EXCEPT ![j] = NewIter]
    /\ ret' = [NoRet EXCEPT !.op = "iter", !.arg = j]
    /\ UNCHANGED <<st, kw, BATCH_SIZE, total, results, query_args, tot, calls,
                   nfetch, nlen, oob, ndrift>>
    /\ UNCHANGED <<proxyVars, recordVars>>

\* next(it) with the position kept in the list instead of in the iterator
DoNextShared(j) ==
    /\ st = "live"
    /\ iters[j].live
    /\ LET r == IterStep(Obj, iters[j])
       IN  /\ Commit(r.m)
           /\ Report("next", j, r)
           /\ iters' = [i \in 1..NumIters |->
                           IF i = j THEN r.it
                           ELSE [iters[i] EXCEPT !.idx = r.it.idx]]
    /\ UNCHANGED <<st, kw, BATCH_SIZE, query_args, tot, nlen, oob, ndrift>>
    /\ UNCHANGED <<proxyVars, recordVars>>

\* next(it) on the iterator in slot j
DoNext(j) ==
    /\ st = "live"
    /\ iters[j].live
    /\ LET r == IterStep(Obj, iters[j])
       IN  /\ Commit(r.m)
           /\ Report("next", j, r)
           /\ iters' = [iters EXCEPT ![j] = r.it]
    /\ UNCHANGED <<st, kw, BATCH_SIZE, query_args, tot, nlen, oob, ndrift>>
    /\ UNCHANGED <<proxyVars, recordVars>>

DoContains ==
    /\ st = "live"
    /\ \E obj \in -1..MaxTotal :
        LET r == Contains(Obj, obj)
        IN  /\ Commit(r.m)
            /\ Report("contains", obj, r)
    /\ UNCHANGED <<st, kw, BATCH_SIZE, query_args, tot, nlen, iters, oob, ndrift>>
    /\ UNCHANGED <<proxyVars, recordVars>>

\* the ids asked for: the id of every possible item, and ids of no item
KeyArgs == {Key(n) : n \in -1..MaxTotal} \cup {NoKey}

\* s in q, for a string s
DoContainsKey ==
    /\ st = "live"
    /\ \E key \in KeyArgs :
        LET r == QueryContains(Obj, key)
        IN  /\ Commit(r.m)
            /\ ReportKey("haskey", key, r)
    /\ UNCHANGED <<st, kw, BATCH_SIZE, query_args, tot, nlen, iters, oob, ndrift>>
    /\ UNCHANGED <<proxyVars, recordVars>>

\* q[s], for a string s
DoGetKey ==
    /\ st = "live"
    /\ \E key \in KeyArgs :
        LET r == QueryGetItem(Obj, key)
        IN  /\ Commit(r.m)
            /\ ReportKey("getkey", key, r)
    /\ UNCHANGED <<st, kw, BATCH_SIZE, query_args, tot, nlen, iters, oob, ndrift>>
    /\ UNCHANGED <<proxyVars, recordVars>>

\* ---- Vocabulary (api.py): a PaginatedList with term lookup by id ---------
\* Vocabulary.__init__ treats size and page as Query.__init__ does, and
\* _get_batch asks for page bidx + 1; the list variables stand for either

\* Vocabulary.__getitem__ with a string, out being what query.term(...) did
VocabularyGetItem(out) ==
    IF out.kind = "HTTPStatusError" THEN [kind |-> "KeyError", val |-> NoVal]
    ELSE [kind |-> out.kind, val |-> out.val]

\* obj in voc for a string, r being what self.__getitem__(obj) did
VocabularyContainsStr(r) ==
    IF r.kind = "ok" THEN [kind |-> "ok", val |-> TRUE]
    ELSE IF r.kind = "KeyError" THEN [kind |-> "ok", val |-> FALSE]
    ELSE [kind |-> r.kind, val |-> FALSE]

\* obj in voc for any other value: PaginatedList.__contains__ is called and
\* its answer is dropped, so __contains__ returns None, which "in" takes as
\* False
VocabularyContains(m, obj) == [Contains(m, obj) EXCEPT !.val = FALSE]

\* s in voc, for a string s
DoVocContainsStr ==
    /\ st = "live"
    /\ \E key \in KeyArgs : \E out \in EntityOutcomes(key) :
        LET r == VocabularyContainsStr(VocabularyGetItem(out))
        IN  ret' = [NoRet EXCEPT !.op = "voc_str", !.arg = key, !.kind = r.kind,
                                 !.val = r.val, !.pre = total,
                                 !.hit = (out.kind = "ok")]
    /\ UNCHANGED <<st, kw, BATCH_SIZE, total, results, query_args, tot, calls,
                   nfetch, nlen, iters, oob, ndrift>>
    /\ UNCHANGED <<proxyVars, recordVars>>

\* obj in voc, for a term object
DoVocContains ==
    /\ st = "live"
    /\ \E obj \in -1..MaxTotal :
        LET r == VocabularyContains(Obj, obj)
        IN  /\ Commit(r.m)
            /\ Report("voc_obj", obj, r)
    /\ UNCHANGED <<st, kw, BATCH_SIZE, query_args, tot, nlen, iters, oob, ndrift>>
    /\ UNCHANGED <<proxyVars, recordVars>>

\* self._get_query(**a): the Query variables now describe the object handed
\* out, which starts without iterators
NewQuery(a) ==
    LET q == QueryInit(a)
    IN  /\ kw' = a
        /\ st' = q.st
        /\ BATCH_SIZE' = q.BATCH_SIZE
        /\ query_args' = q.query_args
        /\ nlen' = 0
        /\ oob' = FALSE
        /\ UNCHANGED <<tot, ndrift>>

\* ap(**a)
DoProxyCall ==
    /\ \E a \in ValidKwargs, q0 \in {ProxyQuery(Obj)} :
        /\ NewQuery(a)
        /\ Commit(q0)
        /\ pret' = [NoProxyRet EXCEPT !.op = "call", !.kind = QueryInit(a).kind,
                                      !.q0 = q0, !.again = (pret.op = "call")]
    /\ iters' = [j \in 1..NumIters |-> NoIter]
    /\ ret' = [NoRet EXCEPT !.op = "proxy"]
    /\ UNCHANGED recordVars

\* len(ap): len(self())
DoProxyLen ==
    /\ \E q0 \in {ProxyQuery(Obj)} :
        /\ NewQuery(Empty)
        /\ LET r == Length(q0)'
           IN  /\ Commit(r.m)
               /\ pret' = [NoProxyRet EXCEPT !.op = "len", !.kind = r.kind,
                                             !.val = r.val,
                                             !.nf = Fetches(r.m) - Fetches(q0),
                                             !.q0 = q0, !.again = (pret.op = "len")]
    /\ iters' = [j \in 1..NumIters |-> NoIter]
    /\ ret' = [NoRet EXCEPT !.op = "proxy"]
    /\ UNCHANGED recordVars

\* iter(ap): iter(self()), the iterator taking slot 1
DoProxyIter ==
    /\ \E q0 \in {ProxyQuery(Obj)} :
        /\ NewQuery(Empty)
        /\ Commit(q0)
        /\ pret' = [NoProxyRet EXCEPT !.op = "iter", !.q0 = q0,
                                      !.again = (pret.op = "iter")]
    /\ iters' = [j \in 1..NumIters |-> IF j = 1 THEN NewIter ELSE NoIter]
    /\ ret' = [NoRet EXCEPT !.op = "proxy"]
    /\ UNCHANGED recordVars

\* ap[key] with a string key
ProxyGetItemStr ==
    /\ \E key \in KeyArgs : \E out \in EntityOutcomes(key) :
        LET r == ProxyGetEntity(out)
        IN  pret' = [NoProxyRet EXCEPT !.op = "getitem", !.typ = "str", !.arg = key,
                                      !.out = out.kind, !.status = out.status,
                                      !.kind = r.kind, !.val = r.val,
                                      !.again = (pret.op = "getitem")]
    /\ UNCHANGED <<st, kw, BATCH_SIZE, total, results, query_args, tot, calls,
                   nfetch, nlen, iters, oob, ndrift, ret, recordVars>>

\* ap[key] with an integer key: self()[key]
ProxyGetItemInt ==
    /\ \E idx \in -1..MaxTotal, q0 \in {ProxyQuery(Obj)} :
        /\ NewQuery(Empty)
        /\ LET r == GetItem(q0, idx)'
           IN  /\ Commit(r.m)
               /\ pret' = [NoProxyRet EXCEPT !.op = "getitem", !.typ = "int",
                                             !.arg = idx, !.kind = r.kind,
                                             !.val = r.val,
                                             !.nf = Fetches(r.m) - Fetches(q0),
                                             !.q0 = q0, !.again = (pret.op = "getitem")]
    /\ iters' = [j \in 1..NumIters |-> NoIter]
    /\ ret' = [NoRet EXCEPT !.op = "proxy"]
    /\ UNCHANGED recordVars

\* ap[key] with a key that is neither a string nor an integer
ProxyGetItemOther ==
    /\ pret' = [NoProxyRet EXCEPT !.op = "getitem", !.typ = "float",
                                  !.kind = "TypeError", !.again = (pret.op = "getitem")]
    /\ UNCHANGED <<st, kw, BATCH_SIZE, total, results, query_args, tot, calls,
                   nfetch, nlen, iters, oob, ndrift, ret, recordVars>>

\* key in ap with a string key
ProxyContainsStr ==
    /\ \E key \in KeyArgs : \E out \in EntityOutcomes(key) :
        LET r == ProxyContains(ProxyGetEntity(out))
        IN  pret' = [NoProxyRet EXCEPT !.op = "contains", !.typ = "str",
                                      !.arg = key, !.out = out.kind,
                                      !.status = out.status, !.kind = r.kind,
                                      !.val = r.val, !.again = (pret.op = "contains")]
    /\ UNCHANGED <<st, kw, BATCH_SIZE, total, results, query_args, tot, calls,
                   nfetch, nlen, iters, oob, ndrift, ret, recordVars>>

\* key in ap with an integer key
ProxyContainsInt ==
    /\ \E idx \in -1..MaxTotal, q0 \in {ProxyQuery(Obj)} :
        /\ NewQuery(Empty)
        /\ LET g == GetItem(q0, idx)'
               r == ProxyContains(g)
           IN  /\ Commit(g.m)
               /\ pret' = [NoProxyRet EXCEPT !.op = "contains", !.typ = "int",
                                             !.arg = idx, !.kind = r.kind,
                                             !.val = r.val,
                                             !.nf = Fetches(g.m) - Fetches(q0),
                                             !.q0 = q0, !.again = (pret.op = "contains")]
    /\ iters' = [j \in 1..NumIters |-> NoIter]
    /\ ret' = [NoRet EXCEPT !.op = "proxy"]
    /\ UNCHANGED recordVars

\* key in ap with a key that is neither a string nor an integer
ProxyContainsOther ==
    /\ pret' = [NoProxyRet EXCEPT !.op = "contains", !.typ = "float",
                                  !.kind = ProxyContains([kind |-> "TypeError"]).kind,
                                  !.val = FALSE, !.again = (pret.op = "contains")]
    /\ UNCHANGED <<st, kw, BATCH_SIZE, total, results, query_args, tot, calls,
                   nfetch, nlen, iters, oob, ndrift, ret, recordVars>>

\* between two requests records are added to or removed from the remote index
\* (a change before the first fetch is the same as another initial tot)
RemoteChange ==
    /\ st = "live"
    /\ total # NoTotal
    /\ ndrift < MaxDrift
    /\ ndrift' = ndrift + 1
    /\ \E t \in (0..MaxTotal) \ {tot} : tot' = t
    /\ ret' = [NoRet EXCEPT !.op = "remote"]
    /\ UNCHANGED <<st, kw, BATCH_SIZE, total, results, query_args, calls, nfetch,
                   nlen, iters, oob>>
    /\ UNCHANGED <<proxyVars, recordVars>>

\* ---- the repository behind the draft and record REST API ----------------
RecordIds == 1..MaxVersions
MetaVals == 0..MaxMeta
FileNames == 1..MaxFiles

\* AccessControl.record: the access policy of a record
AccVals == {"public", "restricted"}

\* self._record is None
NoRecord ==
    [id |-> 0, is_published |-> FALSE, meta |-> 0, access |-> "public",
     enabled |-> FALSE]

\* nothing is stored under a record id
NoEntry ==
    [st |-> "none", dmeta |-> 0, pmeta |-> 0, dacc |-> "public", pacc |-> "public",
     enabled |-> FALSE, files |-> {}]

HasDraft(R, i) == i \in RecordIds /\ R[i].st \in {"draft", "pubdraft"}

HasRecord(R, i) == i \in RecordIds /\ R[i].st \in {"pub", "pubdraft"}

\* the draft stored under id i as a Record object
DraftView(R, i) ==
    [id |-> i, is_published |-> HasRecord(R, i), meta |-> R[i].dmeta,
     access |-> R[i].dacc, enabled |-> R[i].enabled]

\* the published record stored under id i as a Record object
RecordView(R, i) ==
    [id |-> i, is_published |-> TRUE, meta |-> R[i].pmeta, access |-> R[i].pacc,
     enabled |-> R[i].enabled]

\* a server that validates the metadata only
ErrorsOfMetadata(e) == IF e.dmeta = 0 THEN {"metadata"} ELSE {}

\* the validation errors the server attaches to a draft: mandatory metadata
\* are missing, or files are enabled and none is attached
Errors(e) ==
    (IF e.dmeta = 0 THEN {"metadata"} ELSE {})
    \cup (IF e.enabled /\ e.files = {} THEN {"files.enabled"} ELSE {})

Rejected == [kind |-> "HTTPStatusError"]

\* DraftAPI.get
DraftGet(R, i) ==
    IF HasDraft(R, i) THEN [kind |-> "ok", R |-> R, resp |-> DraftView(R, i)]
    ELSE Rejected

\* DraftAPI.update: metadata, access and the files.enabled flag of the draft
\* object are stored; the flag is fixed once files are attached or the record
\* is published
DraftUpdate(R, rec) ==
    IF HasDraft(R, rec.id)
    THEN LET i == rec.id
             R1 == [R EXCEPT ![i].dmeta = rec.meta,
                             ![i].dacc = rec.access,
                             ![i].enabled = IF R[i].st = "draft" /\ R[i].files = {}
                                            THEN rec.enabled ELSE R[i].enabled]
         IN  [kind |-> "ok", R |-> R1, resp |-> DraftView(R1, i),
              errors |-> Errors(R1[i])]
    ELSE Rejected

\* DraftAPI.publish: a draft with validation errors is refused
DraftPublish(R, i) ==
    IF HasDraft(R, i) /\ Errors(R[i]) = {}
    THEN LET R1 == [R EXCEPT ![i].st = "pub", ![i].pmeta = R[i].dmeta,
                             ![i].pacc = R[i].dacc]
         IN  [kind |-> "ok", R |-> R1, resp |-> RecordView(R1, i)]
    ELSE Rejected

\* DraftAPI.delete
DraftDelete(R, i) ==
    IF HasDraft(R, i)
    THEN [kind |-> "ok",
          R |-> [R EXCEPT ![i] = IF R[i].st = "draft" THEN NoEntry
                                 ELSE [R[i] EXCEPT !.st = "pub"]]]
    ELSE Rejected

\* DraftAPI.from_record: the draft for editing a published record, created
\* from the record unless it exists
DraftFromRecord(R, i) ==
    IF HasRecord(R, i)
    THEN LET R1 == IF R[i].st = "pub"
                   THEN [R EXCEPT ![i].st = "pubdraft", ![i].dmeta = R[i].pmeta,
                                  ![i].dacc = R[i].pacc]
                   ELSE R
         IN  [kind |-> "ok", R |-> R1, resp |-> DraftView(R1, i)]
    ELSE Rejected

\* the id of the draft for the next version: the unpublished draft if there
\* is one, else the first id not in use (0 when the repository is full)
NextVersionId(R) ==
    IF \E j \in RecordIds : R[j].st = "draft"
    THEN CHOOSE j \in RecordIds : R[j].st = "draft"
    ELSE IF \E j \in RecordIds : R[j].st = "none"
    THEN CHOOSE j \in RecordIds :
             R[j].st = "none" /\ \A k \in RecordIds : R[k].st = "none" => j <= k
    ELSE 0

\* DraftAPI.new_version: a draft with a new id, without publication date and
\* files, keeping the files.enabled flag; the same draft however often asked
DraftNewVersion(R, i) ==
    IF HasRecord(R, i) /\ NextVersionId(R) # 0
    THEN LET j == NextVersionId(R)
             R1 == IF R[j].st = "draft" THEN R
                   ELSE [R EXCEPT ![j] = [st |-> "draft", dmeta |-> 0, pmeta |-> 0,
                                          dacc |-> R[i].pacc, pacc |-> "public",
                                          enabled |-> R[i].enabled, files |-> {}]]
         IN  [kind |-> "ok", R |-> R1, resp |-> DraftView(R1, j)]
    ELSE Rejected

\* DraftAPI.files / RecordAPI.files
FilesOf(R, i) == [enabled |-> R[i].enabled, entries |-> R[i].files]

\* the draft under id i takes files: it is the draft of a version that was
\* never published, and file support is enabled
TakesFiles(R, i) == i \in RecordIds /\ R[i].st = "draft" /\ R[i].enabled

\* DraftAPI.file_upload_start: the file name is registered with the draft
DraftFileUploadStart(R, i, f) ==
    IF TakesFiles(R, i) /\ f \notin R[i].files
    THEN [kind |-> "ok", R |-> [R EXCEPT ![i].files = @ \cup {f}]]
    ELSE Rejected

\* DraftAPI.file_delete
DraftFileDelete(R, i, f) ==
    IF TakesFiles(R, i) /\ f \in R[i].files
    THEN [kind |-> "ok", R |-> [R EXCEPT ![i].files = @ \ {f}]]
    ELSE Rejected

\* DraftAPI.files_import: the files of the previous version are attached to
\* the draft, which has none so far
DraftFilesImport(R, i) ==
    IF TakesFiles(R, i) /\ R[i].files = {} /\ HasRecord(R, i - 1)
    THEN LET R1 == [R EXCEPT ![i].files = R[i - 1].files]
         IN  [kind |-> "ok", R |-> R1, resp |-> FilesOf(R1, i)]
    ELSE Rejected

\* ---- WrappedRecord -------------------------------------------------------
Wrappers == 1..NumWrappers

NoWrapper ==
    [live |-> FALSE, is_draft |-> FALSE, rec |-> NoRecord,
     files |-> [parent |-> 0, enabled |-> FALSE, entries |-> {}]]

\* the requests WrappedFiles.__init__ sends for parent record rec
FilesInitReqs(rec) == IF rec.enabled THEN <<"files">> ELSE <<>>

\* WrappedFiles.__init__ for the wrapper in slot w
WrappedFilesInit(R, w, rec) ==
    [parent |-> w, enabled |-> rec.enabled,
     entries |-> IF rec.enabled THEN FilesOf(R, rec.id).entries ELSE {}]

\* WrappedRecord.__init__(cl, rec, is_draft) for the object in slot w
WrappedRecordInit(R, w, rec, isdraft) ==
    [live |-> TRUE, is_draft |-> isdraft, rec |-> rec,
     files |-> WrappedFilesInit(R, w, rec)]

\* the outcome of an operation: exception kind, validation errors that save()
\* returned, boolean answer, repository and wrapper afterwards, requests sent
Outcome(kind, R, W, reqs) ==
    [kind |-> kind, errs |-> {}, ans |-> FALSE, R |-> R, W |-> W, reqs |-> reqs]

\* _expect_draft that always passes
ExpectDraftNever(W) == "ok"

\* _expect_draft
ExpectDraft(W) == IF ~W.is_draft THEN "TypeError" ELSE "ok"

\* _expect_published
ExpectPublished(W) ==
    IF W.is_draft THEN "TypeError"
    ELSE IF W.rec = NoRecord THEN "AttributeError"
    ELSE IF ~W.rec.is_published THEN "TypeError"
    ELSE "ok"

\* save(); request number fail, if it is sent, ends in a connection error
Save(R, W, fail) ==
    IF ExpectDraft(W) # "ok" THEN Outcome(ExpectDraft(W), R, W, <<>>)
    ELSE IF W.rec = NoRecord THEN Outcome("AttributeError", R, W, <<>>)
    ELSE IF fail = 1 THEN Outcome("ConnectError", R, W, <<"update">>)
    ELSE LET u == DraftUpdate(R, W.rec)
         IN  IF u.kind # "ok" THEN Outcome(u.kind, R, W, <<"update">>)
             ELSE [Outcome("ok", u.R, [W EXCEPT !.rec = u.resp], <<"update">>)
                       EXCEPT !.errs = u.errors]

\* publish() that does not look at the errors of save()
PublishUnchecked(R, W, fail) ==
    IF ExpectDraft(W) # "ok" THEN Outcome(ExpectDraft(W), R, W, <<>>)
    ELSE LET s == Save(R, W, fail)
         IN  IF s.kind # "ok" THEN s
             ELSE IF fail = 2
             THEN [Outcome("ConnectError", s.R, s.W, Append(s.reqs, "publish"))
                       EXCEPT !.errs = s.errs]
             ELSE LET p == DraftPublish(s.R, s.W.rec.id)
                  IN  IF p.kind # "ok"
                      THEN [Outcome(p.kind, s.R, s.W, Append(s.reqs, "publish"))
                                EXCEPT !.errs = s.errs]
                      ELSE [Outcome("ok", p.R,
                                    [s.W EXCEPT !.rec = p.resp, !.is_draft = FALSE],
                                    Append(s.reqs, "publish"))
                                EXCEPT !.errs = s.errs]

\* publish() that leaves the object a draft
PublishStaysDraft(R, W, fail) ==
    IF ExpectDraft(W) # "ok" THEN Outcome(ExpectDraft(W), R, W, <<>>)
    ELSE LET s == Save(R, W, fail)
         IN  IF s.kind # "ok" THEN s
             ELSE IF s.errs # {}
             THEN [Outcome("ValueError", s.R, s.W, s.reqs) EXCEPT !.errs = s.errs]
             ELSE IF fail = 2
             THEN [Outcome("ConnectError", s.R, s.W, Append(s.reqs, "publish"))
                       EXCEPT !.errs = s.errs]
             ELSE LET p == DraftPublish(s.R, s.W.rec.id)
                  IN  IF p.kind # "ok"
                      THEN [Outcome(p.kind, s.R, s.W, Append(s.reqs, "publish"))
                                EXCEPT !.errs = s.errs]
                      ELSE [Outcome("ok", p.R, [s.W EXCEPT !.rec = p.resp],
                                    Append(s.reqs, "publish"))
                                EXCEPT !.errs = s.errs]

\* publish()
Publish(R, W, fail) ==
    IF ExpectDraft(W) # "ok" THEN Outcome(ExpectDraft(W), R, W, <<>>)
    ELSE LET s == Save(R, W, fail)
         IN  IF s.kind # "ok" THEN s
             ELSE IF s.errs # {}
             THEN [Outcome("ValueError", s.R, s.W, s.reqs) EXCEPT !.errs = s.errs]
             ELSE IF fail = 2
             THEN [Outcome("ConnectError", s.R, s.W, Append(s.reqs, "publish"))
                       EXCEPT !.errs = s.errs]
             ELSE LET p == DraftPublish(s.R, s.W.rec.id)
                  IN  IF p.kind # "ok"
                      THEN [Outcome(p.kind, s.R, s.W, Append(s.reqs, "publish"))
                                EXCEPT !.errs = s.errs]
                      ELSE [Outcome("ok", p.R,
                                    [s.W EXCEPT !.rec = p.resp, !.is_draft = FALSE],
                                    Append(s.reqs, "publish"))
                                EXCEPT !.errs = s.errs]

\* delete() that keeps the record object after the deletion
DeleteKeepsRecord(R, W, fail) ==
    IF ExpectDraft(W) # "ok" THEN Outcome(ExpectDraft(W), R, W, <<>>)
    ELSE IF W.rec = NoRecord THEN Outcome("AttributeError", R, W, <<>>)
    ELSE IF fail = 1 THEN Outcome("ConnectError", R, W, <<"delete">>)
    ELSE LET d == DraftDelete(R, W.rec.id)
         IN  IF d.kind # "ok" THEN Outcome(d.kind, R, W, <<"delete">>)
             ELSE Outcome("ok", d.R, W, <<"delete">>)

\* delete()
Delete(R, W, fail) ==
    IF ExpectDraft(W) # "ok" THEN Outcome(ExpectDraft(W), R, W, <<>>)
    ELSE IF W.rec = NoRecord THEN Outcome("AttributeError", R, W, <<>>)
    ELSE IF fail = 1 THEN Outcome("ConnectError", R, W, <<"delete">>)
    ELSE LET d == DraftDelete(R, W.rec.id)
         IN  IF d.kind # "ok" THEN Outcome(d.kind, R, W, <<"delete">>)
             ELSE Outcome("ok", d.R, [W EXCEPT !.rec = NoRecord], <<"delete">>)

\* edit() that keeps the snapshot of the published record
EditKeepsRecord(R, W, fail) ==
    IF ExpectPublished(W) # "ok" THEN Outcome(ExpectPublished(W), R, W, <<>>)
    ELSE IF fail = 1 THEN Outcome("ConnectError", R, W, <<"from_record">>)
    ELSE LET f == DraftFromRecord(R, W.rec.id)
         IN  IF f.kind # "ok" THEN Outcome(f.kind, R, W, <<"from_record">>)
             ELSE Outcome("ok", f.R, [W EXCEPT !.is_draft = TRUE], <<"from_record">>)

\* edit()
Edit(R, W, fail) ==
    IF ExpectPublished(W) # "ok" THEN Outcome(ExpectPublished(W), R, W, <<>>)
    ELSE IF fail = 1 THEN Outcome("ConnectError", R, W, <<"from_record">>)
    ELSE LET f == DraftFromRecord(R, W.rec.id)
         IN  IF f.kind # "ok" THEN Outcome(f.kind, R, W, <<"from_record">>)
             ELSE Outcome("ok", f.R, [W EXCEPT !.rec = f.resp, !.is_draft = TRUE],
                          <<"from_record">>)

\* is_saved(): the draft is fetched and wrapped, then access, metadata and
\* files are compared with the local ones
IsSaved(R, W, fail) ==
    IF ExpectDraft(W) # "ok" THEN Outcome(ExpectDraft(W), R, W, <<>>)
    ELSE IF W.rec = NoRecord THEN Outcome("AttributeError", R, W, <<>>)
    ELSE IF fail = 1 THEN Outcome("ConnectError", R, W, <<"get">>)
    ELSE LET g == DraftGet(R, W.rec.id)
         IN  IF g.kind # "ok" THEN Outcome(g.kind, R, W, <<"get">>)
             ELSE LET reqs == <<"get">> \o FilesInitReqs(g.resp)
                      drft == WrappedRecordInit(R, 0, g.resp, TRUE)
                  IN  IF fail = 2 /\ Len(reqs) = 2
                      THEN Outcome("ConnectError", R, W, reqs)
                      ELSE [Outcome("ok", R, W, reqs) EXCEPT
                               !.ans = /\ drft.rec.access = W.rec.access
                                       /\ drft.rec.meta = W.rec.meta
                                       /\ drft.files.enabled = W.files.enabled
                                       /\ drft.files.entries = W.files.entries]

\* the access_links and versions properties
PropertyOfPublished(R, W) == Outcome(ExpectPublished(W), R, W, <<>>)

\* versions.create() that wraps the new draft as a published record
VersionsCreateAsRecord(R, W, j, fail) ==
    IF ExpectPublished(W) # "ok"
    THEN [new |-> NoWrapper, o |-> Outcome(ExpectPublished(W), R, W, <<>>)]
    ELSE IF fail = 1
    THEN [new |-> NoWrapper, o |-> Outcome("ConnectError", R, W, <<"new_version">>)]
    ELSE LET v == DraftNewVersion(R, W.rec.id)
         IN  IF v.kind # "ok"
             THEN [new |-> NoWrapper, o |-> Outcome(v.kind, R, W, <<"new_version">>)]
             ELSE LET reqs == <<"new_version">> \o FilesInitReqs(v.resp)
                  IN  IF fail = 2 /\ Len(reqs) = 2
                      THEN [new |-> NoWrapper,
                            o |-> Outcome("ConnectError", v.R, W, reqs)]
                      ELSE [new |-> WrappedRecordInit(v.R, j, v.resp, FALSE),
                            o |-> Outcome("ok", v.R, W, reqs)]

\* versions.create() on the object W: the draft of the new version is wrapped
\* in a new object, which goes to slot j; W itself stays as it is
VersionsCreate(R, W, j, fail) ==
    IF ExpectPublished(W) # "ok"
    THEN [new |-> NoWrapper, o |-> Outcome(ExpectPublished(W), R, W, <<>>)]
    ELSE IF fail = 1
    THEN [new |-> NoWrapper, o |-> Outcome("ConnectError", R, W, <<"new_version">>)]
    ELSE LET v == DraftNewVersion(R, W.rec.id)
         IN  IF v.kind # "ok"
             THEN [new |-> NoWrapper, o |-> Outcome(v.kind, R, W, <<"new_version">>)]
             ELSE LET reqs == <<"new_version">> \o FilesInitReqs(v.resp)
                  IN  IF fail = 2 /\ Len(reqs) = 2
                      THEN [new |-> NoWrapper,
                            o |-> Outcome("ConnectError", v.R, W, reqs)]
                      ELSE [new |-> WrappedRecordInit(v.R, j, v.resp, TRUE),
                            o |-> Outcome("ok", v.R, W, reqs)]

\* assignment to metadata that is sent to the repository at once
SetMetadataSynced(R, W, v) ==
    IF W.rec = NoRecord THEN Outcome("AttributeError", R, W, <<>>)
    ELSE IF DraftUpdate(R, [W.rec EXCEPT !.meta = v]).kind # "ok"
    THEN Outcome("HTTPStatusError", R, W, <<"update">>)
    ELSE Outcome("ok", DraftUpdate(R, [W.rec EXCEPT !.meta = v]).R,
                 [W EXCEPT !.rec.meta = v], <<"update">>)

\* assignment to the attribute metadata: __setattr__ hands it to the record
SetMetadata(R, W, v) ==
    IF W.rec = NoRecord THEN Outcome("AttributeError", R, W, <<>>)
    ELSE Outcome("ok", R, [W EXCEPT !.rec.meta = v], <<>>)

\* assignment to the attribute access
SetAccess(R, W, v) ==
    IF W.rec = NoRecord THEN Outcome("AttributeError", R, W, <<>>)
    ELSE Outcome("ok", R, [W EXCEPT !.rec.access = v], <<>>)

\* __slots__ of WrappedRecord
Slots == {"_client", "_record", "_is_draft", "_files", "_access_links", "_versions"}

\* super().__setattr__(name, value) for a slot: _is_draft and _record are the
\* slots whose value the model keeps
SlotAssign(W, name, v) ==
    IF name = "_is_draft" THEN [W EXCEPT !.is_draft = v]
    ELSE IF name = "_record" THEN [W EXCEPT !.rec = v]
    ELSE W

\* __setattr__ that refuses every name but metadata and access
SetAttrStrict(R, W, name, v) ==
    IF name = "metadata" THEN SetMetadata(R, W, v)
    ELSE IF name = "access" THEN SetAccess(R, W, v)
    ELSE Outcome("ValueError", R, W, <<>>)

\* __setattr__(name, value)
SetAttr(R, W, name, v) ==
    IF name = "metadata" THEN SetMetadata(R, W, v)
    ELSE IF name = "access" THEN SetAccess(R, W, v)
    ELSE IF name \in Slots THEN Outcome("ok", R, SlotAssign(W, name, v), <<>>)
    ELSE Outcome("ValueError", R, W, <<>>)

\* the attributes that are properties of WrappedRecord
Properties == {"files", "access_links", "versions", "is_draft"}

\* reading the attribute name: a property of the wrapper, or else
\* __getattr__, which asks self._record
GetAttr(R, W, name) ==
    IF name \in {"access_links", "versions"} THEN PropertyOfPublished(R, W)
    ELSE IF name = "is_draft" THEN [Outcome("ok", R, W, <<>>) EXCEPT !.ans = W.is_draft]
    ELSE IF name = "files" THEN Outcome("ok", R, W, <<>>)
    ELSE IF W.rec = NoRecord THEN Outcome("AttributeError", R, W, <<>>)
    ELSE Outcome("ok", R, W, <<>>)

\* ---- WrappedFiles --------------------------------------------------------
\* _check_mutable that looks at is_draft only
CheckMutableDraftOnly(W) == IF ~W.is_draft THEN "ValueError" ELSE "ok"

\* _check_mutable
CheckMutable(W) ==
    IF ~W.is_draft THEN "ValueError"
    ELSE IF W.rec = NoRecord THEN "AttributeError"
    ELSE IF W.rec.is_published THEN "ValueError"
    ELSE "ok"

\* _check_enabled
CheckEnabled(W) == IF ~W.files.enabled THEN "ValueError" ELSE "ok"

\* the keys of _entries_dict()
EntriesDict(W) == IF ~W.files.enabled THEN {} ELSE W.files.entries

\* _check_filename that never complains
CheckFilenameNever(W, f, should_exist) == "ok"

\* _check_filename
CheckFilename(W, f, should_exist) ==
    IF should_exist /\ f \notin EntriesDict(W) THEN "ValueError"
    ELSE IF ~should_exist /\ f \in EntriesDict(W) THEN "ValueError"
    ELSE "ok"

\* _get_fileinfos()
GetFileinfos(R, W) == [W.files EXCEPT !.enabled = FilesOf(R, W.rec.id).enabled,
                                      !.entries = FilesOf(R, W.rec.id).entries]

\* the requests of an upload, in the order they are sent
UploadReqs == <<"upload_start", "upload_content", "upload_complete", "files">>

\* files.upload(f, data); request number fail, if it is sent, ends in a
\* connection error
Upload(R, W, f, fail) ==
    IF CheckMutable(W) # "ok" THEN Outcome(CheckMutable(W), R, W, <<>>)
    ELSE IF CheckEnabled(W) # "ok" THEN Outcome(CheckEnabled(W), R, W, <<>>)
    ELSE IF CheckFilename(W, f, FALSE) # "ok"
    THEN Outcome(CheckFilename(W, f, FALSE), R, W, <<>>)
    ELSE IF fail = 1 THEN Outcome("ConnectError", R, W, SubSeq(UploadReqs, 1, 1))
    ELSE LET u == DraftFileUploadStart(R, W.rec.id, f)
         IN  IF u.kind # "ok" THEN Outcome(u.kind, R, W, SubSeq(UploadReqs, 1, 1))
             ELSE IF fail # 0
             THEN Outcome("ConnectError", u.R, W, SubSeq(UploadReqs, 1, fail))
             ELSE Outcome("ok", u.R, [W EXCEPT !.files = GetFileinfos(u.R, W)],
                          UploadReqs)

\* files.delete(f)
FileDelete(R, W, f, fail) ==
    IF CheckMutable(W) # "ok" THEN Outcome(CheckMutable(W), R, W, <<>>)
    ELSE IF CheckFilename(W, f, TRUE) # "ok"
    THEN Outcome(CheckFilename(W, f, TRUE), R, W, <<>>)
    ELSE IF fail = 1 THEN Outcome("ConnectError", R, W, <<"file_delete">>)
    ELSE LET d == DraftFileDelete(R, W.rec.id, f)
         IN  IF d.kind # "ok" THEN Outcome(d.kind, R, W, <<"file_delete">>)
             ELSE Outcome("ok", d.R, [W EXCEPT !.files.entries = @ \ {f}],
                          <<"file_delete">>)

\* self._parent.versions.index < 2: versions is the property of the wrapper,
\* not the field of the record. Where the property hands out the
\* RecordVersions proxy, index is looked up on a Query and is the method
\* index of a sequence, which cannot be compared with a number
ParentVersionsIndex(W) ==
    IF ExpectPublished(W) # "ok" THEN [kind |-> ExpectPublished(W), val |-> 0]
    ELSE [kind |-> "TypeError", val |-> 0]

\* files.import_old()
ImportOld(R, W, fail) ==
    IF CheckMutable(W) # "ok" THEN Outcome(CheckMutable(W), R, W, <<>>)
    ELSE IF CheckEnabled(W) # "ok" THEN Outcome(CheckEnabled(W), R, W, <<>>)
    ELSE IF ParentVersionsIndex(W).kind # "ok"
    THEN Outcome(ParentVersionsIndex(W).kind, R, W, <<>>)
    ELSE IF ParentVersionsIndex(W).val < 2 THEN Outcome("ValueError", R, W, <<>>)
    ELSE IF W.files.entries # {} THEN Outcome("ValueError", R, W, <<>>)
    ELSE IF fail = 1 THEN Outcome("ConnectError", R, W, <<"files_import">>)
    ELSE LET m == DraftFilesImport(R, W.rec.id)
         IN  IF m.kind # "ok" THEN Outcome(m.kind, R, W, <<"files_import">>)
             ELSE Outcome("ok", m.R,
                          [W EXCEPT !.files.enabled = m.resp.enabled,
                                    !.files.entries = m.resp.entries],
                          <<"files_import">>)

\* the assignment without the test for file entries
SetEnabledUnchecked(R, W, v, fail) ==
    IF W.rec = NoRecord THEN Outcome("AttributeError", R, W, <<>>)
    ELSE IF fail = 1 THEN Outcome("ConnectError", R, W, <<"get">>)
    ELSE LET g == DraftGet(R, W.rec.id)
         IN  IF g.kind # "ok" THEN Outcome(g.kind, R, W, <<"get">>)
             ELSE IF fail = 2 THEN Outcome("ConnectError", R, W, <<"get", "update">>)
             ELSE LET u == DraftUpdate(R, [g.resp EXCEPT !.enabled = v])
                  IN  Outcome("ok", u.R,
                              [W EXCEPT !.rec.enabled = v, !.files.enabled = v],
                              <<"get", "update">>)

\* the setter of files.enabled
SetEnabled(R, W, v, fail) ==
    IF W.files.entries # {} THEN Outcome("ValueError", R, W, <<>>)
    ELSE IF W.rec = NoRecord THEN Outcome("AttributeError", R, W, <<>>)
    ELSE IF fail = 1 THEN Outcome("ConnectError", R, W, <<"get">>)
    ELSE LET g == DraftGet(R, W.rec.id)
         IN  IF g.kind # "ok" THEN Outcome(g.kind, R, W, <<"get">>)
             ELSE IF fail = 2 THEN Outcome("ConnectError", R, W, <<"get", "update">>)
             ELSE LET u == DraftUpdate(R, [g.resp EXCEPT !.enabled = v])
                  IN  Outcome("ok", u.R,
                              [W EXCEPT !.rec.enabled = v, !.files.enabled = v],
                              <<"get", "update">>)

NoWRet == [op |-> "none", w |-> 0, kind |-> "ok", errs |-> {}, ans |-> FALSE,
           reqs |-> <<>>, new |-> 0, pre |-> NoWrapper, rpre |-> NoEntry,
           afterpub |-> FALSE, arg |-> 0, deleted |-> {}]

\* the repository entry of the record the object W stands for
EntryOf(R, W) == IF W.rec = NoRecord THEN NoEntry ELSE R[W.rec.id]

\* the operation before was a publish() on the same object that succeeded
AfterPublish(w) == wret.op = "publish" /\ wret.kind = "ok" /\ wret.w = w

\* the objects on which delete() has succeeded, after op ended as o on w
Deleted(op, w, o) ==
    IF op = "delete" /\ o.kind = "ok" THEN wret.deleted \cup {w} ELSE wret.deleted

\* the operation op on the object in slot w ended as o
Finish(op, w, o) ==
    /\ remote' = o.R
    /\ wrap' = [wrap EXCEPT ![w] = o.W]
    /\ wret' = [NoWRet EXCEPT !.op = op, !.w = w, !.kind = o.kind, !.errs = o.errs,
                              !.ans = o.ans, !.reqs = o.reqs, !.pre = wrap[w],
                              !.rpre = EntryOf(remote, wrap[w]),
                              !.afterpub = AfterPublish(w),
                              !.deleted = Deleted(op, w, o)]

\* the operations of Query and AccessProxy do not touch the records
ListUnchanged ==
    UNCHANGED <<st, kw, BATCH_SIZE, total, results, query_args, tot, calls, nfetch,
                nlen, iters, oob, ndrift, ret, proxyVars, linkVars>>

\* which request, if any, ends in a connection error
Fails == 0..2

DoSave(w) ==
    /\ wrap[w].live
    /\ \E fail \in Fails : Finish("save", w, Save(remote, wrap[w], fail))
    /\ ListUnchanged

DoPublish(w) ==
    /\ wrap[w].live
    /\ \E fail \in Fails : Finish("publish", w, Publish(remote, wrap[w], fail))
    /\ ListUnchanged

DoDelete(w) ==
    /\ wrap[w].live
    /\ \E fail \in Fails : Finish("delete", w, Delete(remote, wrap[w], fail))
    /\ ListUnchanged

DoEdit(w) ==
    /\ wrap[w].live
    /\ \E fail \in Fails : Finish("edit", w, Edit(remote, wrap[w], fail))
    /\ ListUnchanged

DoIsSaved(w) ==
    /\ wrap[w].live
    /\ \E fail \in Fails : Finish("is_saved", w, IsSaved(remote, wrap[w], fail))
    /\ ListUnchanged

\* w.access_links or w.versions is read
DoProperty(w) ==
    /\ wrap[w].live
    /\ \E name \in {"access_links", "versions"} :
           Finish(name, w, PropertyOfPublished(remote, wrap[w]))
    /\ ListUnchanged

\* n = w.versions.create(), the new object n taking another slot
DoVersionsCreate(w) ==
    /\ wrap[w].live
    /\ wrap[w].rec # NoRecord => NextVersionId(remote) # 0
    /\ \E fail \in Fails, j \in Wrappers \ {w} :
        LET c == VersionsCreate(remote, wrap[w], j, fail)
        IN  /\ remote' = c.o.R
            /\ wrap' = IF c.new.live THEN [wrap EXCEPT ![j] = c.new] ELSE wrap
            /\ wret' = [NoWRet EXCEPT !.op = "new_version", !.w = w,
                                      !.kind = c.o.kind, !.reqs = c.o.reqs,
                                      !.new = IF c.new.live THEN j ELSE 0,
                                      !.pre = wrap[w],
                                      !.rpre = EntryOf(remote, wrap[w]),
                                      !.afterpub = AfterPublish(w),
                                      !.deleted = wret.deleted]
    /\ ListUnchanged

\* w.metadata = v
DoSetMetadata(w) ==
    /\ wrap[w].live
    /\ \E v \in MetaVals : Finish("set_metadata", w, SetMetadata(remote, wrap[w], v))
    /\ ListUnchanged

\* the operation op with argument arg on the object in slot w ended as o
FinishArg(op, w, arg, o) ==
    /\ remote' = o.R
    /\ wrap' = [wrap EXCEPT ![w] = o.W]
    /\ wret' = [NoWRet EXCEPT !.op = op, !.w = w, !.kind = o.kind, !.errs = o.errs,
                              !.ans = o.ans, !.reqs = o.reqs, !.pre = wrap[w],
                              !.rpre = EntryOf(remote, wrap[w]),
                              !.afterpub = AfterPublish(w), !.arg = arg,
                              !.deleted = Deleted(op, w, o)]

\* w.access = v
DoSetAccess(w) ==
    /\ wrap[w].live
    /\ \E v \in AccVals : Finish("set_access", w, SetAccess(remote, wrap[w], v))
    /\ ListUnchanged

\* the attribute names tried: the writable ones, fields of the record,
\* properties and slots of the wrapper, and a name that does not exist
AttrNames ==
    {"metadata", "access", "id", "is_draft", "files", "versions", "_is_draft",
     "_record", "something"}

\* the values assigned to an attribute
AttrValues(name) ==
    IF name = "metadata" THEN MetaVals
    ELSE IF name = "access" THEN AccVals
    ELSE IF name = "_is_draft" THEN BOOLEAN
    ELSE IF name = "_record" THEN {NoRecord}
    ELSE {0}

\* w.name = v
DoSetAttr(w) ==
    /\ wrap[w].live
    /\ \E name \in AttrNames : \E v \in AttrValues(name) :
           FinishArg("setattr", w, name, SetAttr(remote, wrap[w], name, v))
    /\ ListUnchanged

\* the attribute names read
ReadNames == {"is_draft", "files", "access_links", "versions", "id", "metadata"}

\* w.name is read
DoGetAttr(w) ==
    /\ wrap[w].live
    /\ \E name \in ReadNames :
           FinishArg("getattr", w, name, GetAttr(remote, wrap[w], name))
    /\ ListUnchanged

\* w.files.enabled = v
DoSetEnabled(w) ==
    /\ wrap[w].live
    /\ \E v \in BOOLEAN, fail \in Fails :
           FinishArg("set_enabled", w, v, SetEnabled(remote, wrap[w], v, fail))
    /\ ListUnchanged

\* which request of an upload, if any, ends in a connection error
UploadFails == 0..Len(UploadReqs)

\* w.files.upload(f, data)
DoUpload(w) ==
    /\ wrap[w].live
    /\ \E f \in FileNames, fail \in UploadFails :
           FinishArg("upload", w, f, Upload(remote, wrap[w], f, fail))
    /\ ListUnchanged

\* w.files.delete(f)
DoFileDelete(w) ==
    /\ wrap[w].live
    /\ \E f \in FileNames, fail \in Fails :
           FinishArg("file_delete", w, f, FileDelete(remote, wrap[w], f, fail))
    /\ ListUnchanged

\* w.files.import_old()
DoImportOld(w) ==
    /\ wrap[w].live
    /\ \E fail \in Fails :
           FinishArg("import_old", w, 0, ImportOld(remote, wrap[w], fail))
    /\ ListUnchanged

\* ---- access links and versions of a published record ---------------------
LinkIds == 1..MaxLinks

\* expires_at: 0 is None
ExpVals == 0..MaxExpiry

\* permission: a LinkPermission, or "none" for None
PermVals == {"none", "view", "edit"}

\* no access link: the id is not in use, or self._link is None
NoLink == [id |-> 0, created_at |-> 0, expires_at |-> 0, permission |-> "none",
           token |-> 0]

\* the AccessLink the repository holds under id i when it was created with
\* the defaults: no expiry date, permission VIEW
NewLink(i) ==
    [id |-> i, created_at |-> 1, expires_at |-> 0, permission |-> "view", token |-> i]

HasLink(L, i) == i \in LinkIds /\ L[i] # NoLink

\* AccessLinkAPI.list: the ids of the links of the record
LinkList(L) == {i \in LinkIds : HasLink(L, i)}

\* AccessLinkAPI.get
LinkGet(L, i) ==
    IF HasLink(L, i) THEN [kind |-> "ok", resp |-> L[i]]
    ELSE [kind |-> "HTTPStatusError", resp |-> NoLink]

\* AccessLinkAPI.delete
LinkDelete(L, i) ==
    IF HasLink(L, i) THEN [kind |-> "ok", L |-> [L EXCEPT ![i] = NoLink]]
    ELSE [kind |-> "HTTPStatusError", L |-> L]

\* AccessLinkAPI.create without link_id: permission defaults to VIEW, the
\* repository picks a free id
LinkCreate(L, e, p, fail) ==
    LET free == LinkIds \ LinkList(L)
        i == IF free = {} THEN 0 ELSE CHOOSE x \in free : \A y \in free : x <= y
        new == [NewLink(i) EXCEPT !.expires_at = e,
                                  !.permission = IF p = "none" THEN "view" ELSE p]
    IN  IF fail = 1 THEN [kind |-> "ConnectError", L |-> L, resp |-> NoLink,
                          reqs |-> <<"post">>]
        ELSE IF i = 0 THEN [kind |-> "HTTPStatusError", L |-> L, resp |-> NoLink,
                            reqs |-> <<"post">>]
        ELSE [kind |-> "ok", L |-> [L EXCEPT ![i] = new], resp |-> new,
              reqs |-> <<"post">>]

\* AccessLinkAPI.update: create() with the link's id. The permission must not
\* be None; the request carries the permission, and the expiry date only if
\* it is not None; the repository changes the fields the request carries
LinkUpdate(L, lnk, fail) ==
    IF lnk.permission = "none"
    THEN [kind |-> "AssertionError", L |-> L, reqs |-> <<>>]
    ELSE IF fail = 1 THEN [kind |-> "ConnectError", L |-> L, reqs |-> <<"patch">>]
    ELSE IF ~HasLink(L, lnk.id)
    THEN [kind |-> "HTTPStatusError", L |-> L, reqs |-> <<"patch">>]
    ELSE [kind |-> "ok", reqs |-> <<"patch">>,
          L |-> [L EXCEPT ![lnk.id].permission = lnk.permission,
                          ![lnk.id].expires_at =
                              IF lnk.expires_at # 0 THEN lnk.expires_at ELSE @]]

\* the WrappedAccessLink objects
LinkSlots == {1}

NoALink == [live |-> FALSE, record_id |-> 0, link |-> NoLink]

\* WrappedAccessLink.__init__(cl, rec_id, lnk)
WrappedAccessLinkInit(rec_id, lnk) ==
    [live |-> TRUE, record_id |-> rec_id, link |-> lnk]

\* the outcome of an operation on access links: exception kind, repository
\* and object afterwards, requests sent
LinkOutcome(kind, L, A, reqs) == [kind |-> kind, L |-> L, A |-> A, reqs |-> reqs]

\* _check_deleted that never complains
CheckDeletedNever(A) == "ok"

\* _check_deleted
CheckDeleted(A) == IF A.link = NoLink THEN "ValueError" ELSE "ok"

\* the properties of WrappedAccessLink, and those with a setter
LinkFields == {"id", "token", "created_at", "expires_at", "permission"}

LinkSetters == {"expires_at", "permission"}

\* the value of field name of an AccessLink, as a string or a number
FieldOf(lnk, name) ==
    IF name = "permission" THEN [perm |-> lnk.permission, num |-> 0]
    ELSE [perm |-> "none", num |-> lnk[name]]

\* the AccessLink with field name set to the value v
WithField(lnk, name, v) ==
    IF name = "permission" THEN [lnk EXCEPT !.permission = v.perm]
    ELSE [lnk EXCEPT ![name] = v.num]

\* the values a caller can assign to field name
FieldValues(name) ==
    IF name = "permission" THEN {[perm |-> p, num |-> 0] : p \in PermVals}
    ELSE {[perm |-> "none", num |-> e] : e \in ExpVals}

\* lnk.<name> is read
LinkRead(L, A, name) ==
    IF CheckDeleted(A) # "ok" THEN LinkOutcome(CheckDeleted(A), L, A, <<>>)
    ELSE LinkOutcome("ok", L, A, <<>>)

\* lnk.<name> = v: a property without setter cannot be assigned; the setters
\* store the value in the local AccessLink and then send the update
LinkAssign(L, A, name, v, fail) ==
    IF name \notin LinkSetters THEN LinkOutcome("AttributeError", L, A, <<>>)
    ELSE IF CheckDeleted(A) # "ok" THEN LinkOutcome(CheckDeleted(A), L, A, <<>>)
    ELSE LinkOutcome(LinkUpdate(L, WithField(A.link, name, v), fail).kind,
                     LinkUpdate(L, WithField(A.link, name, v), fail).L,
                     [A EXCEPT !.link = WithField(A.link, name, v)],
                     LinkUpdate(L, WithField(A.link, name, v), fail).reqs)

\* lnk.delete(): self._link.id is read first
LinkWrapperDelete(L, A, fail) ==
    IF A.link = NoLink THEN LinkOutcome("AttributeError", L, A, <<>>)
    ELSE IF fail = 1 THEN LinkOutcome("ConnectError", L, A, <<"delete">>)
    ELSE IF LinkDelete(L, A.link.id).kind # "ok"
    THEN LinkOutcome(LinkDelete(L, A.link.id).kind, L, A, <<"delete">>)
    ELSE LinkOutcome("ok", LinkDelete(L, A.link.id).L, [A EXCEPT !.link = NoLink],
                     <<"delete">>)

\* the two sub-collections of a record
SubCollections == {"access_links", "versions"}

\* the keyword arguments a caller can pass to a sub-collection
FilterArgs == UNION {[D -> {QVal}] : D \in SUBSET KwKeys}

\* AccessLinks._get_query and RecordVersions._get_query
GetQueryAny(a) == "ok"

GetQuery(a) == IF DOMAIN a # {} THEN "ValueError" ELSE "ok"

\* what _query_items of the query of a sub-collection lists, whatever the
\* arguments: the links of the record, or its published versions
SubQueryItems(coll, R, L) ==
    IF coll = "access_links" THEN LinkList(L)
    ELSE {i \in RecordIds : HasRecord(R, i)}

\* AccessLinks._get_entity behind AccessProxy.__getitem__ with a string id
LinksGetItem(L, W, i, fail) ==
    IF fail = 1 THEN LinkOutcome("ConnectError", L, NoALink, <<"get">>)
    ELSE IF LinkGet(L, i).kind # "ok" THEN LinkOutcome("KeyError", L, NoALink, <<"get">>)
    ELSE LinkOutcome("ok", L, WrappedAccessLinkInit(W.rec.id, LinkGet(L, i).resp),
                     <<"get">>)

\* self._parent on an AccessLinks object: __init__ sets _client and
\* _record_id only, so the name goes to AccessProxy.__getattr__, which builds
\* the unfiltered query and asks it for the attribute; a query has none
LinksParent == "AttributeError"

\* AccessLinks.create(expires_at, permission)
AccessLinksCreate(L, W, e, p, fail) ==
    IF LinksParent # "ok" THEN LinkOutcome(LinksParent, L, NoALink, <<>>)
    ELSE LinkOutcome(LinkCreate(L, e, p, fail).kind, LinkCreate(L, e, p, fail).L,
                     IF LinkCreate(L, e, p, fail).kind = "ok"
                     THEN WrappedAccessLinkInit(W.rec.id, LinkCreate(L, e, p, fail).resp)
                     ELSE NoALink,
                     LinkCreate(L, e, p, fail).reqs)

NoLRet == [op |-> "none", k |-> 0, coll |-> "none", name |-> "none",
           arg |-> [perm |-> "none", num |-> 0], kw |-> {}, kind |-> "ok",
           val |-> [perm |-> "none", num |-> 0], items |-> {}, reqs |-> <<>>,
           pre |-> NoALink, lpre |-> [i \in LinkIds |-> NoLink], gone |-> FALSE]

LinksIdle ==
    /\ links = [i \in LinkIds |-> NoLink]
    /\ alink = [k \in LinkSlots |-> NoALink]
    /\ lret = NoLRet

\* the operations on access links do not touch Query, AccessProxy and records
LinkFrame ==
    UNCHANGED <<st, kw, BATCH_SIZE, total, results, query_args, tot, calls, nfetch,
                nlen, iters, oob, ndrift, ret, proxyVars, remote, wrap, wret>>

LinkFails == 0..1

\* the operation op on the link object in slot k ended as o
LinkFinish(op, k, name, arg, o) ==
    /\ links' = o.L
    /\ alink' = [alink EXCEPT ![k] = o.A]
    /\ lret' = [NoLRet EXCEPT !.op = op, !.k = k, !.name = name, !.arg = arg,
                              !.kind = o.kind, !.reqs = o.reqs,
                              !.val = IF op = "read" /\ o.kind = "ok"
                                      THEN FieldOf(o.A.link, name) ELSE @,
                              !.pre = alink[k], !.lpre = links,
                              !.gone = alink[k].live /\ alink[k].link = NoLink]

\* w.access_links(**a) or w.versions(**a)
DoCollectionCall(w) ==
    /\ wrap[w].live
    /\ \E coll \in SubCollections, a \in FilterArgs :
        LET p == PropertyOfPublished(remote, wrap[w]).kind
            kind == IF p # "ok" THEN p ELSE GetQuery(a)
        IN  lret' = [NoLRet EXCEPT !.op = "call", !.coll = coll, !.kw = DOMAIN a,
                                   !.kind = kind, !.lpre = links,
                                   !.items = IF kind = "ok"
                                             THEN SubQueryItems(coll, remote, links)
                                             ELSE {}]
    /\ UNCHANGED <<links, alink>>
    /\ LinkFrame

\* lnk = w.access_links[i], the new object taking the free slot k
DoLinksGetItem(w, k) ==
    /\ wrap[w].live
    /\ ~alink[k].live
    /\ PropertyOfPublished(remote, wrap[w]).kind = "ok"
    /\ \E i \in LinkIds, fail \in LinkFails :
           LinkFinish("getitem", k, "id", [perm |-> "none", num |-> i],
                      LinksGetItem(links, wrap[w], i, fail))
    /\ LinkFrame

\* lnk = w.access_links.create(e, p), the new object taking the free slot k
DoLinksCreate(w, k) ==
    /\ wrap[w].live
    /\ ~alink[k].live
    /\ \E e \in ExpVals, p \in PermVals, fail \in LinkFails :
        LET pp == PropertyOfPublished(remote, wrap[w]).kind
        IN  LinkFinish("create", k, "none", [perm |-> p, num |-> e],
                       IF pp # "ok" THEN LinkOutcome(pp, links, NoALink, <<>>)
                       ELSE AccessLinksCreate(links, wrap[w], e, p, fail))
    /\ LinkFrame

\* lnk.<name> is read
DoLinkRead(k) ==
    /\ alink[k].live
    /\ \E name \in LinkFields :
           LinkFinish("read", k, name, NoLRet.arg, LinkRead(links, alink[k], name))
    /\ LinkFrame

\* lnk.<name> = v
DoLinkAssign(k) ==
    /\ alink[k].live
    /\ \E name \in LinkFields, fail \in LinkFails :
        \E v \in FieldValues(name) :
           LinkFinish("assign", k, name, v, LinkAssign(links, alink[k], name, v, fail))
    /\ LinkFrame

\* lnk.delete()
DoLinkDelete(k) ==
    /\ alink[k].live
    /\ \E fail \in LinkFails :
           LinkFinish("delete", k, "none", NoLRet.arg,
                      LinkWrapperDelete(links, alink[k], fail))
    /\ LinkFrame

\* what the repository can hold for the first record id at the start: a new
\* draft, or a published record (valid, and with a file if files are enabled)
InitialEntries ==
    {[NoEntry EXCEPT !.st = "draft", !.dmeta = m, !.enabled = e] :
        m \in MetaVals, e \in BOOLEAN}
    \cup {[NoEntry EXCEPT !.st = "draft", !.dmeta = m, !.enabled = TRUE, !.files = f] :
        m \in MetaVals, f \in SUBSET FileNames \ {{}}}
    \cup {[NoEntry EXCEPT !.st = "pub", !.pmeta = m] : m \in MetaVals \ {0}}
    \cup {[NoEntry EXCEPT !.st = "pub", !.pmeta = m, !.enabled = TRUE, !.files = f] :
        m \in MetaVals \ {0}, f \in SUBSET FileNames \ {{}}}

Init ==
    /\ st = "new"
    /\ kw = Empty
    /\ BATCH_SIZE = 0
    /\ total = NoTotal
    /\ results = Empty
    /\ query_args = Empty
    /\ tot \in 0..MaxTotal
    /\ calls = {}
    /\ nfetch = Empty
    /\ nlen = 0
    /\ iters = [j \in 1..NumIters |-> NoIter]
    /\ oob = FALSE
    /\ ndrift = 0
    /\ ret = NoRet
    /\ pret = NoProxyRet
    /\ remote = [i \in RecordIds |-> NoEntry]
    /\ wrap = [w \in Wrappers |-> NoWrapper]
    /\ wret = NoWRet
    /\ LinksIdle

\* no Query is in use; slot 1 holds the object made for record id 1 as
\* drafts and records hand it out: is_draft is true for a draft and false for
\* a published record
InitRecord ==
    /\ st = "new"
    /\ kw = Empty
    /\ BATCH_SIZE = 0
    /\ total = NoTotal
    /\ results = Empty
    /\ query_args = Empty
    /\ tot = 0
    /\ calls = {}
    /\ nfetch = Empty
    /\ nlen = 0
    /\ iters = [j \in 1..NumIters |-> NoIter]
    /\ oob = FALSE
    /\ ndrift = 0
    /\ ret = NoRet
    /\ pret = NoProxyRet
    /\ \E e \in InitialEntries :
        /\ remote = [i \in RecordIds |-> IF i = 1 THEN e ELSE NoEntry]
        /\ wrap = [w \in Wrappers |->
                     IF w = 1
                     THEN WrappedRecordInit(remote, 1,
                              IF e.st = "draft" THEN DraftView(remote, 1)
                              ELSE RecordView(remote, 1),
                              e.st = "draft")
                     ELSE NoWrapper]
    /\ wret = NoWRet
    /\ LinksIdle

\* the drafts of a second version that the repository can hold: metadata in
\* any state, file support on or off, any files attached if it is on
VersionDrafts ==
    {[NoEntry EXCEPT !.st = "draft", !.dmeta = m, !.enabled = e] :
        m \in MetaVals, e \in BOOLEAN}
    \cup {[NoEntry EXCEPT !.st = "draft", !.dmeta = m, !.enabled = TRUE, !.files = f] :
        m \in MetaVals, f \in SUBSET FileNames \ {{}}}

\* no Query is in use; slot 1 holds the object made for record id 1, or the
\* object that versions.create() made for the draft of its second version
InitFiles ==
    /\ st = "new"
    /\ kw = Empty
    /\ BATCH_SIZE = 0
    /\ total = NoTotal
    /\ results = Empty
    /\ query_args = Empty
    /\ tot = 0
    /\ calls = {}
    /\ nfetch = Empty
    /\ nlen = 0
    /\ iters = [j \in 1..NumIters |-> NoIter]
    /\ oob = FALSE
    /\ ndrift = 0
    /\ ret = NoRet
    /\ pret = NoProxyRet
    /\ \E e \in InitialEntries, d \in VersionDrafts \cup {NoEntry} :
        /\ d # NoEntry => e.st = "pub"
        /\ remote = [i \in RecordIds |-> IF i = 1 THEN e
                                         ELSE IF i = 2 THEN d ELSE NoEntry]
        /\ wrap = [w \in Wrappers |->
                     IF w # 1 THEN NoWrapper
                     ELSE IF d # NoEntry
                     THEN WrappedRecordInit(remote, 1, DraftView(remote, 2), TRUE)
                     ELSE WrappedRecordInit(remote, 1,
                              IF e.st = "draft" THEN DraftView(remote, 1)
                              ELSE RecordView(remote, 1),
                              e.st = "draft")]
    /\ wret = NoWRet
    /\ LinksIdle

Next ==
    \/ DoQueryInit
    \/ DoLen
    \/ DoGetItem
    \/ \E j \in 1..NumIters : DoIter(j)
    \/ \E j \in 1..NumIters : DoNext(j)
    \/ DoContains

\* the fetch function is idempotent, as PaginatedList._get_batch assumes
Spec == Init /\ [][Next]_vars

\* a single iterator is in use while the remote index drifts
NextDrift ==
    \/ DoQueryInit
    \/ DoLen
    \/ DoGetItem
    \/ DoIter(1)
    \/ DoNext(1)
    \/ DoContains
    \/ RemoteChange

\* the remote index may change between two requests
SpecDrift == Init /\ [][NextDrift]_vars

\* a Query used as a list and as a dictionary
NextKeys ==
    \/ DoQueryInit
    \/ DoGetItem
    \/ DoContainsKey
    \/ DoGetKey

SpecKeys == Init /\ [][NextKeys]_vars

\* a Vocabulary used as a list and asked for membership
NextVoc ==
    \/ DoQueryInit
    \/ DoGetItem
    \/ DoVocContainsStr
    \/ DoVocContains

SpecVoc == Init /\ [][NextVoc]_vars

\* an AccessProxy, and the Query it handed out last
NextProxy ==
    \/ DoProxyCall
    \/ DoProxyLen
    \/ DoProxyIter
    \/ ProxyGetItemInt
    \/ ProxyContainsInt
    \/ DoLen
    \/ DoNext(1)

SpecProxy == Init /\ [][NextProxy]_vars

\* an AccessProxy asked for entities by id; no Query is involved
NextLookup ==
    \/ ProxyGetItemStr
    \/ ProxyGetItemOther
    \/ ProxyContainsStr
    \/ ProxyContainsOther

SpecLookup == Init /\ [][NextLookup]_vars

\* one WrappedRecord object and the repository behind it
NextRecord ==
    \/ DoSave(1)
    \/ DoPublish(1)
    \/ DoDelete(1)
    \/ DoEdit(1)
    \/ DoIsSaved(1)
    \/ DoProperty(1)
    \/ DoSetMetadata(1)

SpecRecord == InitRecord /\ [][NextRecord]_vars

\* several WrappedRecord objects, made by versions.create() and published in turn
NextVersions ==
    \/ \E w \in Wrappers : DoVersionsCreate(w)
    \/ \E w \in Wrappers : DoSetMetadata(w)
    \/ \E w \in Wrappers : DoPublish(w)

SpecVersions == InitRecord /\ [][NextVersions]_vars

\* one WrappedRecord object: its attributes are read and assigned
NextAttrs ==
    \/ DoSave(1)
    \/ DoPublish(1)
    \/ DoDelete(1)
    \/ DoEdit(1)
    \/ DoIsSaved(1)
    \/ DoGetAttr(1)
    \/ DoSetAttr(1)

SpecAttrs == InitRecord /\ [][NextAttrs]_vars

\* one WrappedRecord object: local changes and what the repository holds
NextSaved ==
    \/ DoSave(1)
    \/ DoPublish(1)
    \/ DoEdit(1)
    \/ DoIsSaved(1)
    \/ DoSetMetadata(1)
    \/ DoSetAccess(1)
    \/ DoSetEnabled(1)
    \/ DoUpload(1)
    \/ DoFileDelete(1)

SpecSaved == InitRecord /\ [][NextSaved]_vars

\* one WrappedRecord object and its files, from a first or second version
\* to its publication and the edits after it
NextFiles ==
    \/ DoPublish(1)
    \/ DoEdit(1)
    \/ DoSetEnabled(1)
    \/ DoUpload(1)
    \/ DoFileDelete(1)
    \/ DoImportOld(1)

SpecFiles == InitFiles /\ [][NextFiles]_vars

\* one object over its whole life, delete() included
NextTerminal ==
    \/ DoSave(1)
    \/ DoPublish(1)
    \/ DoDelete(1)
    \/ DoEdit(1)
    \/ DoIsSaved(1)
    \/ DoSetEnabled(1)
    \/ DoUpload(1)
    \/ DoFileDelete(1)
    \/ DoImportOld(1)

SpecTerminal == InitRecord /\ [][NextTerminal]_vars

\* record id 1 is a valid draft or a published record, wrapped in slot 1;
\* the repository holds access links for a published record, as created with
\* the defaults; no link object exists yet
InitLinks ==
    /\ st = "new"
    /\ kw = Empty
    /\ BATCH_SIZE = 0
    /\ total = NoTotal
    /\ results = Empty
    /\ query_args = Empty
    /\ tot = 0
    /\ calls = {}
    /\ nfetch = Empty
    /\ nlen = 0
    /\ iters = [j \in 1..NumIters |-> NoIter]
    /\ oob = FALSE
    /\ ndrift = 0
    /\ ret = NoRet
    /\ pret = NoProxyRet
    /\ \E pub \in BOOLEAN :
        /\ remote = [i \in RecordIds |->
                       IF i # 1 THEN NoEntry
                       ELSE IF pub THEN [NoEntry EXCEPT !.st = "pub", !.pmeta = 1]
                       ELSE [NoEntry EXCEPT !.st = "draft", !.dmeta = 1]]
        /\ wrap = [w \in Wrappers |->
                     IF w # 1 THEN NoWrapper
                     ELSE WrappedRecordInit(remote, 1,
                              IF pub THEN RecordView(remote, 1)
                              ELSE DraftView(remote, 1), ~pub)]
        /\ \E S \in SUBSET LinkIds :
            /\ ~pub => S = {}
            /\ links = [i \in LinkIds |-> IF i \in S THEN NewLink(i) ELSE NoLink]
    /\ wret = NoWRet
    /\ alink = [k \in LinkSlots |-> NoALink]
    /\ lret = NoLRet

NextLinks ==
    \/ DoCollectionCall(1)
    \/ DoLinksGetItem(1, 1)
    \/ DoLinksCreate(1, 1)
    \/ DoLinkRead(1)
    \/ DoLinkAssign(1)
    \/ DoLinkDelete(1)

SpecLinks == InitLinks /\ [][NextLinks]_vars

\* ---- properties ---------------------------------------------------------
\* the element the fetch function delivers for position k
Elem(k) == GetBatch(k \div BATCH_SIZE).res[(k % BATCH_SIZE) + 1]

\* ceil(a / b) for a >= 0, b >= 1
Ceil(a, b) == (a + b - 1) \div b

Exhausted(j) == iters[j].live /\ iters[j].done

\* C1: for every batch size b >= 1 and every index i with 0 <= i < total,
\* get_item(i) returns the element at offset (i mod b) of batch (i div b)
\* as the fetch function delivers it.
C1_GetItemElement ==
    (ret.op = "getitem" /\ 0 <= ret.arg /\ ret.arg < total)
        => /\ ret.kind = "ok"
           /\ ret.val = Elem(ret.arg)
           /\ ret.val = results[ret.arg \div BATCH_SIZE][(ret.arg % BATCH_SIZE) + 1]

\* a get_item that returned an element of a later batch of a multi-item batch size
C1_Witness ==
    /\ ret.op = "getitem" /\ ret.kind = "ok"
    /\ BATCH_SIZE <= MaxBatch /\ ret.arg \div BATCH_SIZE >= 1

\* C2: over get_item calls each batch index is fetched at most once (the
\* only repeated fetches are those __len__ issues for batch 0); a get_item
\* whose batch is cached while the total is known fetches nothing; a cached
\* batch is never evicted.
C2_FetchOnce ==
    /\ [](\A b \in DOMAIN nfetch : nfetch[b] - (IF b = 0 THEN nlen ELSE 0) <= 1)
    /\ []((ret.op = "getitem" /\ ret.hit /\ ret.pre # NoTotal) => ret.nf = 0)
    /\ []((ret.op \in {"getitem", "next"}) => ret.nf <= 1)
    /\ [][DOMAIN results \subseteq DOMAIN results']_vars

\* a get_item served from the cache after the same batch had been fetched once
C2_Witness ==
    /\ ret.op = "getitem" /\ ret.hit /\ ret.kind = "ok" /\ ret.nf = 0
    /\ ret.arg \div BATCH_SIZE >= 1
    /\ nfetch[ret.arg \div BATCH_SIZE] = 1

\* C3: get_item(index) with index < 0 or index >= total fails with an
\* index error and returns no element, for every batch size and total.
C3_OutOfRange ==
    (ret.op = "getitem" /\ (ret.arg < 0 \/ ret.arg >= total))
        => (ret.kind = "IndexError" /\ ret.val = NoVal)

\* a get_item beyond the end that fetched its batch and then failed
C3_Witness ==
    /\ ret.op = "getitem" /\ ret.arg >= total /\ total > 0
    /\ ret.nf = 1 /\ ret.kind = "IndexError"

\* C4: once total is set, no operation changes it, even when a later fetch
\* reports another total.
C4_TotalStable == [][total # NoTotal => total' = total]_vars

\* an operation fetched a batch while the remote side reported a total other
\* than the one the list had already taken
C4_Witness ==
    /\ ret.op \in {"getitem", "next", "contains", "len"}
    /\ ret.pre # NoTotal /\ ret.nf >= 1
    /\ tot # total /\ total = ret.pre

\* C5: iteration ends: the call number total + 1 of next() signals the end,
\* every earlier call yields an item, and the items yielded are those of
\* positions 0 .. total-1 in increasing order, for every total >= 0.
C5_IterationYieldsAll ==
    \A j \in 1..NumIters : iters[j].live =>
        /\ iters[j].n = Len(iters[j].out) + (IF iters[j].done THEN 1 ELSE 0)
        /\ total # NoTotal => iters[j].n <= total + 1
        /\ iters[j].done =>
            /\ total # NoTotal
            /\ Len(iters[j].out) = total
            /\ \A k \in 0..(total - 1) : iters[j].out[k + 1] = Elem(k)

\* an iterator ran to its end over a list of several batches
C5_Witness ==
    \E j \in 1..NumIters :
        /\ Exhausted(j) /\ ret.op = "next" /\ ret.kind = "StopIteration"
        /\ Len(iters[j].out) >= 2 /\ BATCH_SIZE <= MaxBatch

\* C6: every iterator starts at position 0 and keeps its own position:
\* under any interleaving each iterator has yielded exactly the items before
\* its own position, whatever the other iterators have done.
C6_IteratorsIndependent ==
    /\ ret.op = "iter" => (iters[ret.arg].idx = 0 /\ iters[ret.arg].out = <<>>)
    /\ \A j \in 1..NumIters : iters[j].live =>
            /\ Len(iters[j].out) = iters[j].idx
            /\ \A k \in 0..(iters[j].idx - 1) : iters[j].out[k + 1] = Elem(k)
            /\ iters[j].done => iters[j].idx = total

\* one iterator is at its end while another one is in the middle of the list
C6_Witness ==
    \E i, j \in 1..NumIters :
        /\ i # j /\ Exhausted(i) /\ iters[j].live /\ ~iters[j].done
        /\ 0 < iters[j].idx /\ iters[j].idx < total
        /\ ret.op = "next" /\ ret.arg = j

\* C7 as stated: after iteration to exhaustion the number of cached batches
\* is exactly ceil(total / b), for every total >= 0 and b >= 1.
C7_Stated ==
    \A j \in 1..NumIters : Exhausted(j) =>
        Cardinality(DOMAIN results) = Ceil(total, BATCH_SIZE)

\* C7 amended: after iteration to exhaustion the cache holds the batches
\* 0 .. floor(total / b), the last of them being the one the final probe at
\* index total asked for, and exactly these floor(total / b) + 1 batches when
\* no direct get_item has failed its bounds check.
C7_CachedAfterIteration ==
    \A j \in 1..NumIters : Exhausted(j) =>
        /\ 0..(total \div BATCH_SIZE) \subseteq DOMAIN results
        /\ ~oob => /\ DOMAIN results = 0..(total \div BATCH_SIZE)
                   /\ Cardinality(DOMAIN results) = (total \div BATCH_SIZE) + 1

\* an iterator ran to its end over a non-empty list whose total is a multiple
\* of the batch size, with no failed direct get_item
C7_Witness ==
    \E j \in 1..NumIters :
        /\ Exhausted(j) /\ ~oob
        /\ total > 0 /\ total % BATCH_SIZE = 0

\* C8 as stated: get_length fetches batch 0 if and only if total is still
\* unknown; a call made after total has been set fetches nothing and returns
\* that total, for every total >= 0.
C8_Stated ==
    ret.op = "len" =>
        /\ (ret.nf >= 1) <=> (ret.pre = NoTotal)
        /\ ret.pre # NoTotal => ret.val = ret.pre

\* C9: constructing a Query with an explicit page argument fails at
\* construction, whatever the other arguments, and nothing is fetched.
C9_PageRejected ==
    "page" \in DOMAIN kw =>
        /\ st = "failed"
        /\ ret.op = "init" /\ ret.kind = "ValueError"
        /\ calls = {} /\ nfetch = Empty /\ total = NoTotal

\* a constructor call with page and size together was rejected
C9_Witness ==
    /\ {"page", "size"} \subseteq DOMAIN kw
    /\ st = "failed" /\ ret.kind = "ValueError"

\* C10: every fetch of batch k calls the item-fetch function with
\* page = k + 1, size = batch_size and exactly the stored filter arguments,
\* which are the constructor's arguments without size and are the same for
\* every fetch; batch_size is the size given at construction.
C10_FetchArguments ==
    st = "live" =>
        /\ query_args = (IF "size" \in DOMAIN kw THEN Del(kw, "size") ELSE kw)
        /\ "size" \in DOMAIN kw => BATCH_SIZE = kw["size"]
        /\ \A c \in calls :
            /\ c.page = c.bidx + 1
            /\ c.size = BATCH_SIZE
            /\ c.args = query_args
            /\ "size" \notin DOMAIN c.args
        /\ \A b \in DOMAIN results : \E c \in calls : c.bidx = b

\* a later batch was fetched by a query built with a size and a filter
C10_Witness ==
    /\ {"size", "q"} \subseteq DOMAIN kw
    /\ \E c \in calls : c.bidx >= 1 /\ "q" \in DOMAIN c.args
\* the positions of the result list whose item has the id key
KeyPositions(key) == {k \in 0..(tot - 1) : Key(Elem(k)) = key}

FirstPosition(key) ==
    CHOOSE k \in KeyPositions(key) : \A j \in KeyPositions(key) : k <= j

\* C11: for a Query q and a string s, (s in q) is true exactly when some
\* result item has id s; q[s] returns the first such item in result order
\* and fails with a key-lookup error when there is none; a lookup that
\* matches the item at position k fetches only batches 0 .. (k div batch_size).
C11_KeyLookup ==
    /\ ret.op = "haskey" => ret.val = (KeyPositions(ret.arg) # {})
    /\ (ret.op = "getkey" /\ KeyPositions(ret.arg) = {}) => ret.kind = "KeyError"
    /\ (ret.op = "getkey" /\ KeyPositions(ret.arg) # {})
          => /\ ret.kind = "ok"
             /\ ret.val = Elem(FirstPosition(ret.arg))
             /\ ret.pos = FirstPosition(ret.arg)
    /\ (ret.op \in {"haskey", "getkey"} /\ KeyPositions(ret.arg) # {})
          => ret.fb \subseteq 0..(FirstPosition(ret.arg) \div BATCH_SIZE)

C11_Witness ==
    /\ ret.op = "getkey"
    /\ ret.kind = "ok"
    /\ ret.pos = 1
    /\ BATCH_SIZE = 1
    /\ tot = MaxTotal
    /\ ret.fb = {0, 1}
    /\ 2 \notin DOMAIN results

\* C12: AccessProxy.get_by_id turns a not-found / 4xx-class failure of the
\* remote side into NotFound and lets every other failure (a 5xx status, a
\* connectivity failure) reach the caller unchanged.
C12_Stated ==
    (pret.op = "getitem" /\ pret.typ = "str")
        => /\ (pret.out = "HTTPStatusError" /\ IsClientError(pret.status))
                 => pret.kind = "KeyError"
           /\ (pret.out = "HTTPStatusError" /\ ~IsClientError(pret.status))
                 => pret.kind = "HTTPStatusError"
           /\ pret.out = "ConnectError" => pret.kind = "ConnectError"

\* C13: AccessProxy.contains(key) with a string key is true when the entity
\* fetch succeeds and false when it reports not-found; with a key that is
\* neither a string nor an integer it fails with a type error.
C13_ProxyContains ==
    /\ (pret.op = "contains" /\ pret.typ = "str" /\ pret.out = "ok")
          => (pret.kind = "ok" /\ pret.val = TRUE)
    /\ (pret.op = "contains" /\ pret.typ = "str"
          /\ pret.out = "HTTPStatusError" /\ pret.status = 404)
          => (pret.kind = "ok" /\ pret.val = FALSE)
    /\ (pret.op = "contains" /\ pret.typ = "float") => pret.kind = "TypeError"

C13_Witness ==
    /\ pret.op = "contains"
    /\ pret.typ = "str"
    /\ pret.status = 404
    /\ pret.kind = "ok"
    /\ pret.val = FALSE

\* the operations of the proxy that go through self()
BuildsQuery ==
    \/ pret.op \in {"call", "len", "iter"}
    \/ pret.op \in {"getitem", "contains"} /\ pret.typ = "int"

\* C14: an AccessProxy keeps no result state: every call, length(),
\* iteration or integer get_item builds a new Query with an empty cache, so
\* each of two successive length() calls performs its own batch fetch.
C14_NoResultState ==
    /\ BuildsQuery => pret.q0 = FreshObj
    /\ pret.op = "len" => pret.nf = 1
    /\ (pret.op = "getitem" /\ pret.typ = "int" /\ pret.arg >= 0) => pret.nf = 1
    /\ (pret.op \in {"call", "iter"} /\ ret.op = "proxy")
          => (total = NoTotal /\ results = Empty)

C14_Witness ==
    /\ pret.op = "len"
    /\ pret.again
    /\ pret.nf = 1
    /\ pret.val = MaxTotal

\* the object the last operation was called on, as it is now
Subject == wrap[wret.w]

\* the operation affected neither the object nor the repository
NothingDone ==
    /\ wret.reqs = <<>>
    /\ Subject = wret.pre
    /\ EntryOf(remote, wret.pre) = wret.rpre

WasPublished == ~wret.pre.is_draft /\ wret.pre.rec.is_published

\* C16: edit() on a published wrapper replaces the snapshot with the draft
\* the remote side returns, sets is_draft on the same object and keeps the
\* record id; the object then stays a draft through every save() and every
\* other operation until a publish() succeeds.
C16_EditMakesDraft ==
    /\ (wret.op = "edit" /\ WasPublished)
          => wret.kind \in {"ok", "ConnectError"}
    /\ (wret.op = "edit" /\ wret.kind = "ok")
          => /\ WasPublished
             /\ Subject.is_draft
             /\ Subject.rec = DraftView(remote, wret.pre.rec.id)
             /\ wret.reqs = <<"from_record">>
    /\ (wret.op # "none" /\ wret.pre.is_draft /\ ~Subject.is_draft)
          => (wret.op = "publish" /\ wret.kind = "ok")
    /\ (wret.op = "save" /\ wret.pre.is_draft) => Subject.is_draft

C16_Witness ==
    /\ wret.op = "save"
    /\ wret.kind = "ok"
    /\ Subject.is_draft
    /\ Subject.rec.is_published
    /\ remote[Subject.rec.id].st = "pubdraft"
    /\ remote[Subject.rec.id].dmeta # remote[Subject.rec.id].pmeta

\* C17 as stated: new_version() on a published wrapper turns that same
\* object into the draft of the new version: afterwards it has is_draft true,
\* the id of the new draft, and its files belong to that draft.
C17_Stated ==
    (wret.op = "new_version" /\ wret.kind = "ok")
        => /\ Subject.is_draft
           /\ Subject.rec.id # wret.pre.rec.id
           /\ Subject.files.parent = wret.w

\* C17: versions.create() on a published wrapper leaves that object as it is
\* and returns a new object for the draft of the new version: the new object
\* has is_draft true, the id of the new draft, and files bound to it.
C17_NewVersionObject ==
    (wret.op = "new_version" /\ wret.kind = "ok")
        => /\ WasPublished
           /\ Subject = wret.pre
           /\ wret.new \in Wrappers \ {wret.w}
           /\ LET N == wrap[wret.new]
              IN  /\ N.live /\ N.is_draft
                  /\ N.rec.id # wret.pre.rec.id
                  /\ remote[N.rec.id].st = "draft"
                  /\ N.rec = DraftView(remote, N.rec.id)
                  /\ N.files.parent = wret.new
                  /\ N.files.enabled = remote[N.rec.id].enabled
                  /\ N.files.entries = remote[N.rec.id].files

C17_Witness ==
    /\ wret.op = "new_version"
    /\ wret.kind = "ok"
    /\ wret.w = 1
    /\ wret.new = 2
    /\ ~wrap[1].is_draft
    /\ wrap[1].rec.id = 1
    /\ wrap[2].is_draft
    /\ wrap[2].rec.id = 2
    /\ wrap[2].files.enabled

C20_PublishThenEdit ==
    /\ (wret.op = "publish" /\ wret.kind = "ok")
          => /\ ~Subject.is_draft
             /\ Subject.rec.is_published
             /\ Subject.rec.id = wret.pre.rec.id
             /\ remote[Subject.rec.id].st = "pub"
    /\ (wret.op = "edit" /\ wret.afterpub /\ wret.kind # "ConnectError")
          => /\ wret.kind = "ok"
             /\ Subject.is_draft
             /\ Subject.rec.id = wret.pre.rec.id
             /\ remote[Subject.rec.id].st = "pubdraft"

C20_Witness ==
    /\ wret.op = "edit"
    /\ wret.afterpub
    /\ wret.kind = "ok"
    /\ Subject.is_draft
    /\ wret.rpre.st = "pub"

\* C21: after a successful delete() on a draft, every later attribute read
\* (is_draft and files included), attribute assignment and method call on
\* the same object fails
C21_Stated == [][wret'.w \in wret.deleted => wret'.kind # "ok"]_vars

\* the object W agrees with the remote draft e on metadata, access policy and
\* file listing
LocalSame(W, e) ==
    /\ W.rec.meta = e.dmeta
    /\ W.rec.access = e.dacc
    /\ W.files.enabled = e.enabled
    /\ W.files.entries = (IF e.enabled THEN e.files ELSE {})

\* C22: on a draft, is_saved() answers true right after a save() that
\* succeeded, answers false while the local metadata differ from the saved
\* ones, and answers by comparing metadata, access policy and file listing
\* with the remote draft
C22_Stated ==
    [][wret'.op = "is_saved" /\ wret'.kind = "ok" =>
          /\ (wret.op = "save" /\ wret.kind = "ok" => wret'.ans)
          /\ (wret'.pre.rec.meta # wret'.rpre.dmeta => ~wret'.ans)
          /\ (wret'.ans <=> LocalSame(wret'.pre, wret'.rpre))]_vars

\* the attribute names a user may assign
Writable == {"metadata", "access"}

\* C23 as stated: an assignment to any attribute other than metadata and
\* access, the slots of the wrapper included, fails and leaves the wrapper
\* unchanged
C23_Stated ==
    wret.op = "setattr" /\ wret.arg \notin Writable =>
        wret.kind # "ok" /\ Subject = wret.pre

\* C23: an assignment to a name that is neither metadata nor access nor a
\* slot of the wrapper fails with ValueError, sends nothing and leaves wrapper
\* and repository unchanged; an assignment to a slot is accepted
C23_ReadOnlyAttributes ==
    wret.op = "setattr" =>
        /\ wret.arg \notin Writable \cup Slots =>
               /\ wret.kind = "ValueError"
               /\ wret.reqs = <<>>
               /\ Subject = wret.pre
               /\ EntryOf(remote, Subject) = wret.rpre
        /\ wret.arg \in Slots => wret.kind = "ok" /\ wret.reqs = <<>>
        /\ wret.arg \in Writable =>
               wret.kind = (IF wret.pre.rec = NoRecord THEN "AttributeError" ELSE "ok")

C23_Witness ==
    /\ wret.op = "setattr"
    /\ wret.arg = "_is_draft"
    /\ wret.kind = "ok"
    /\ wret.pre.is_draft
    /\ ~Subject.is_draft

\* C24: an assignment to metadata or access sends no request and leaves the
\* repository as it is; the metadata and access of a remote draft change in
\* no step other than save() and publish()
C24_BufferedLocally ==
    [][/\ wret'.op \in {"set_metadata", "set_access"} =>
              wret'.reqs = <<>> /\ remote' = remote
       /\ wret'.op \notin {"save", "publish"} =>
              \A i \in RecordIds :
                  HasDraft(remote, i) /\ HasDraft(remote', i) =>
                      /\ remote'[i].dmeta = remote[i].dmeta
                      /\ remote'[i].dacc = remote[i].dacc]_vars

C24_Witness ==
    /\ wret.op \in {"set_metadata", "set_access"}
    /\ wret.kind = "ok"
    /\ Subject.is_draft
    /\ HasDraft(remote, Subject.rec.id)
    /\ Subject.rec.meta # DraftView(remote, Subject.rec.id).meta
    /\ Subject.rec.access # DraftView(remote, Subject.rec.id).access

\* the object was, before the operation, the draft of a version that has
\* never been published
WasMutable == wret.pre.is_draft /\ ~wret.pre.rec.is_published

\* the operation failed before any request, and left the listing and the
\* repository entry as they were
RefusedLocally ==
    /\ wret.kind # "ok"
    /\ wret.reqs = <<>>
    /\ Subject.files = wret.pre.files
    /\ EntryOf(remote, Subject) = wret.rpre

\* C25: files.upload and files.delete are refused locally on a published
\* record and on a draft that edits a published version; files.upload is also
\* refused while file support is disabled
C25_FilesImmutable ==
    /\ wret.op \in {"upload", "file_delete"} /\ ~WasMutable => RefusedLocally
    /\ wret.op = "upload" /\ ~wret.pre.files.enabled => RefusedLocally

C25_Witness ==
    /\ wret.op = "file_delete"
    /\ wret.pre.is_draft
    /\ wret.pre.rec.is_published
    /\ wret.arg \in wret.pre.files.entries
    /\ wret.kind = "ValueError"


\* C26: assigning files.enabled on a published record, or on a draft that
\* edits a published version, fails with an error and changes neither the
\* local flag nor the repository entry
C26_Stated ==
    wret.op = "set_enabled" /\ ~WasMutable =>
        /\ wret.kind # "ok"
        /\ Subject.files.enabled = wret.pre.files.enabled
        /\ Subject.rec.enabled = wret.pre.rec.enabled
        /\ EntryOf(remote, Subject) = wret.rpre


\* C27: assigning files.enabled while the listing holds a file entry fails
\* with ValueError before any request, and the flag stays as it was in the
\* object and in the repository
C27_EnabledFrozen ==
    wret.op = "set_enabled" /\ wret.pre.files.entries # {} =>
        /\ wret.kind = "ValueError"
        /\ wret.reqs = <<>>
        /\ Subject = wret.pre
        /\ EntryOf(remote, Subject) = wret.rpre

C27_Witness ==
    /\ wret.op = "set_enabled"
    /\ WasMutable
    /\ wret.pre.files.enabled
    /\ wret.arg = FALSE
    /\ wret.pre.files.entries # {}
    /\ wret.kind = "ValueError"
    /\ EntryOf(remote, Subject).enabled


\* the same file operation is called again on the same object with the same
\* file name, right after it succeeded
Repeated(op) ==
    /\ wret.op = op /\ wret.kind = "ok"
    /\ wret'.op = op /\ wret'.w = wret.w /\ wret'.arg = wret.arg

\* C28: an upload of the name just uploaded, and a delete of the name just
\* deleted, fail with ValueError before any request and leave the listing
\* and the repository as they were
C28_SecondCallRefused ==
    [][Repeated("upload") \/ Repeated("file_delete") =>
           /\ wret'.kind = "ValueError"
           /\ wret'.reqs = <<>>
           /\ wrap'[wret'.w].files = wrap[wret.w].files
           /\ remote' = remote]_vars

C28_Witness ==
    /\ wret.op = "upload"
    /\ wret.kind = "ValueError"
    /\ WasMutable
    /\ wret.pre.files.enabled
    /\ wret.arg \in wret.pre.files.entries
    /\ wret.arg \in Subject.files.entries
    /\ wret.arg \in EntryOf(remote, Subject).files


\* the draft is a later version of a published record and its listing is
\* empty
CanImport ==
    /\ wret.pre.rec.id >= 2
    /\ HasRecord(remote, wret.pre.rec.id - 1)
    /\ wret.pre.files.entries = {}

\* C29: files.import_old() on a never published draft with files enabled
\* succeeds when the draft is a later version without file entries, and the
\* listing is then the one of the repository; on a first version, or with a
\* file entry, it fails and leaves the listing as it was
C29_Stated ==
    wret.op = "import_old" /\ WasMutable /\ wret.pre.files.enabled =>
        IF CanImport
        THEN \/ wret.kind = "ConnectError"
             \/ /\ wret.kind = "ok"
                /\ Subject.files = FilesOf(remote, Subject.rec.id)
        ELSE /\ wret.kind # "ok"
             /\ Subject.files = wret.pre.files


\* C30: after a successful files.upload, files.delete or files.import_old the
\* file names of the listing are the file names of the draft in the
\* repository
C30_Stated ==
    wret.op \in {"upload", "file_delete", "import_old"} /\ wret.kind = "ok" =>
        EntriesDict(Subject) = FilesOf(remote, Subject.rec.id).entries


\* is_saved() on the object W answers true
AnswersSaved(R, W) == IsSaved(R, W, 0).kind = "ok" /\ IsSaved(R, W, 0).ans

\* C31: on a draft without file entries for which is_saved() is true, an
\* assignment to files.enabled that succeeds leaves is_saved() true
C31_Stated ==
    [][/\ wret'.op = "set_enabled" /\ wret'.kind = "ok"
       /\ wrap[wret'.w].is_draft
       /\ wrap[wret'.w].files.entries = {}
       /\ AnswersSaved(remote, wrap[wret'.w])
       => AnswersSaved(remote', wrap'[wret'.w])]_vars


\* C32: on a published record, access_links(...) and versions(...) with a
\* filter argument fail with ValueError without any request; without
\* arguments they give the query over all links, or all published versions,
\* of the record
C32_NoFilters ==
    lret.op = "call" /\ ExpectPublished(wrap[1]) = "ok" =>
        /\ lret.reqs = <<>>
        /\ links = lret.lpre
        /\ IF lret.kw # {}
           THEN lret.kind = "ValueError" /\ lret.items = {}
           ELSE /\ lret.kind = "ok"
                /\ lret.coll = "access_links" =>
                       lret.items = {i \in LinkIds : links[i].id = i}
                /\ lret.coll = "versions" =>
                       lret.items = {i \in RecordIds : remote[i].st \in {"pub", "pubdraft"}}

C32_Witness ==
    /\ lret.op = "call"
    /\ lret.coll = "access_links"
    /\ ExpectPublished(wrap[1]) = "ok"
    /\ lret.kw = {"q"}
    /\ lret.kind = "ValueError"
    /\ LinkList(links) # {}


\* C33: once delete() has succeeded on an access link object, every read of
\* one of its five fields and every assignment to expires_at or permission
\* fails with ValueError, and no request is sent
C33_DeletedLinkUnusable ==
    /\ lret.gone
    /\ \/ lret.op = "read"
       \/ lret.op = "assign" /\ lret.name \in LinkSetters
    => /\ lret.kind = "ValueError"
       /\ lret.reqs = <<>>
       /\ links = lret.lpre
       /\ alink[lret.k] = lret.pre

C33_Witness ==
    /\ lret.op = "assign"
    /\ lret.name = "permission"
    /\ lret.arg.perm = "edit"
    /\ lret.gone
    /\ lret.kind = "ValueError"
    /\ LinkList(links) # {}


\* C34: access_links.create() on a published record, unless the connection
\* fails, returns an object for a new link of the record: the collection is
\* one longer and holds a link with the id of the object
C34_Stated ==
    /\ lret.op = "create"
    /\ ExpectPublished(wrap[1]) = "ok"
    /\ lret.kind # "ConnectError"
    /\ LinkList(lret.lpre) # LinkIds
    => /\ lret.kind = "ok"
       /\ alink[lret.k].live
       /\ alink[lret.k].link.id \in LinkList(links) \ LinkList(lret.lpre)
       /\ Cardinality(LinkList(links)) = Cardinality(LinkList(lret.lpre)) + 1


\* C35: for a string, Vocabulary membership is true exactly when the term
\* lookup by that id succeeds; for any other value it is true exactly when
\* the value equals a term of the query results
C35_Stated ==
    /\ ret.op = "voc_str" /\ ret.kind = "ok" => (ret.val <=> ret.hit)
    /\ ret.op = "voc_obj" /\ ret.kind = "ok" =>
           (ret.val <=> (0 <= ret.arg /\ ret.arg < tot))


C37_Stated ==
    pret.op = "contains" /\ pret.typ = "int" =>
        /\ pret.kind = "ok"
        /\ pret.val <=> (0 <= pret.arg /\ pret.arg < tot)


\* C38: once delete() has succeeded on an object, each of save, publish,
\* delete, edit, is_saved, files.upload, files.delete, files.enabled = v and
\* files.import_old on it fails without a request, the repository stays as
\* it is, and the object stays without a record
C38_DeletedIsTerminal ==
    [][wret'.w \in wret.deleted =>
           /\ wret'.kind # "ok"
           /\ wret'.reqs = <<>>
           /\ remote' = remote
           /\ wrap'[wret'.w] = wrap[wret'.w]
           /\ wrap'[wret'.w].rec = NoRecord
           /\ wret'.deleted = wret.deleted]_vars

C38_Witness ==
    /\ wret.op = "set_enabled"
    /\ wret.w \in wret.deleted
    /\ wret.pre.rec = NoRecord
    /\ wret.pre.files.enabled
    /\ wret.arg = FALSE
    /\ wret.kind = "AttributeError"


\* C39: when a request of files.upload fails, the error reaches the caller
\* and the listing of the object is still the listing of the draft in the
\* repository, so that the same upload can be tried again
C39_Stated ==
    /\ wret.op = "upload"
    /\ wret.reqs # <<>>
    /\ wret.kind # "ok"
    /\ wret.pre.files.entries = wret.rpre.files
    => /\ wret.kind \in {"ConnectError", "HTTPStatusError"}
       /\ EntriesDict(Subject) = FilesOf(remote, Subject.rec.id).entries
       /\ Upload(remote, Subject, wret.arg, 0).kind = "ok"


\* C40: after an assignment to expires_at or permission on an access link
\* object that was not deleted, whether the update succeeded or failed, the
\* value the object holds is the value the repository stores for the link
C40_Stated ==
    /\ lret.op = "assign"
    /\ lret.name \in LinkSetters
    /\ ~lret.gone
    /\ HasLink(links, alink[lret.k].link.id)
    => FieldOf(alink[lret.k].link, lret.name)
           = FieldOf(links[alink[lret.k].link.id], lret.name)

====
